---- MODULE Spec2Model ----
(***************************************************************************)
(* A model of the shopify-mcp server: the ShopifyQL query-string helpers,  *)
(* the tools' execute functions and the tool registrations of the server.  *)
(*                                                                         *)
(* JavaScript values that the code may hand around untyped (the result of  *)
(* a property lookup on an object literal) are tagged records              *)
(* [type, str]; str is what String(value) gives.  An object with optional  *)
(* keys is a function whose DOMAIN is the set of keys that are present.    *)
(* An optional single value (T | null) is a sequence of length 0 or 1.     *)
(***************************************************************************)
EXTENDS Integers, Sequences, FiniteSets, TLC

VARIABLES
    \* ---- one tool invocation through the registry (Spec) ----
    phase,      \* "idle" | "rejected" | "awaiting" | "returned" | "threw"
    tool,       \* registered name of the invoked tool
    args,       \* the raw arguments of the invocation
    input,      \* <<parsed input>> once validation accepted the arguments
    variables,  \* <<variables>> of the GraphQL request execute issued
    requests,   \* number of shopifyClient.request calls of this invocation
    response,   \* <<response>> once the remote call settled
    mapped,     \* TRUE once execute reached its "Format ..." section
    outcome,    \* <<[kind, ...]>> what the handler returned or raised
    errorLog,   \* what this invocation wrote with console.error
    reply,      \* <<{content: [...]}>> once the handler returned
    \* ---- the query-string helpers applied to bounded inputs (SpecQL) ----
    qlFn,       \* which helper is applied
    qlArg,      \* its argument
    qlResult,   \* <<result>> once applied
    \* ---- the inventory mapping applied to bounded nodes (SpecInv) ----
    invNode,    \* one inventoryItems edge node of a response
    invItem,    \* <<mapped item>> once mapped
    \* ---- process startup (SpecStartup) ----
    pc,              \* where the top-level code of index.ts stands
    step,            \* index of the next initialize / server.tool call
    argv,            \* the command-line flags the process was started with
    env,             \* the environment the process was started with
    processEnv,      \* process.env as the program leaves it
    accessToken,     \* const SHOPIFY_ACCESS_TOKEN
    domain,          \* const MYSHOPIFY_DOMAIN
    exitCode,        \* <<status>> once process.exit was called
    stderr,          \* lines written with console.error at startup
    shopifyClient,   \* <<the GraphQLClient of index.ts>> once constructed
    toolClient,      \* per tool: the shopifyClient variable of its module
    initializeCalls, \* per tool: number of initialize calls
    registered,      \* names given to server.tool, in order
    connected,       \* server.connect resolved
    executing,       \* <<tool>> while the server runs its execute
    requestedWith,   \* <<client>> that execute issues its request through
    invokedAs,       \* <<name>> the running handler was registered under
    \* ---- overlapping execute calls (SpecCalls) ----
    calls            \* the execute calls started so far, in start order

vars == <<phase, tool, args, input, variables, requests, response, mapped,
          outcome, errorLog, reply, qlFn, qlArg, qlResult, invNode, invItem,
          pc, step, argv, env, processEnv, accessToken, domain, exitCode,
          stderr, shopifyClient, toolClient, initializeCalls, registered,
          connected, executing, requestedWith, invokedAs, calls>>

serverVars == <<phase, tool, args, input, variables, requests, response,
                mapped, outcome, errorLog, reply>>
qlVars == <<qlFn, qlArg, qlResult>>
invVars == <<invNode, invItem>>
bootVars == <<pc, step, argv, env, processEnv, accessToken, domain, exitCode,
              stderr, shopifyClient, toolClient, initializeCalls, registered,
              connected, executing, requestedWith, invokedAs>>
callVars == <<calls>>

-----------------------------------------------------------------------------
(* JavaScript primitives the code relies on *)

None == <<>>
Some(x) == <<x>>

JSString(s) == [type |-> "string", str |-> s]
JSFunction(name) ==
    [type |-> "function", str |-> "function " \o name \o "() { [native code] }"]
JSObject == [type |-> "object", str |-> "[object Object]"]
JSUndefined == [type |-> "undefined", str |-> "undefined"]

\* Property names every object literal inherits from Object.prototype.
ObjectPrototypeFunctions ==
    {"constructor", "toString", "toLocaleString", "valueOf", "hasOwnProperty",
     "isPrototypeOf", "propertyIsEnumerable"}

\* map[key] on an object literal: own properties first, then the prototype.
PropertyLookup(map, key) ==
    IF key \in DOMAIN map THEN JSString(map[key])
    ELSE IF key = "constructor" THEN JSFunction("Object")
    ELSE IF key \in ObjectPrototypeFunctions THEN JSFunction(key)
    ELSE IF key = "__proto__" THEN JSObject
    ELSE JSUndefined

\* ToBoolean of a tagged value.
Truthy(v) == /\ v.type # "undefined"
             /\ ~(v.type = "string" /\ v.str = "")

\* a || b
OrElse(a, b) == IF Truthy(a) THEN a ELSE b

\* Array.prototype.join on an array of strings.
RECURSIVE Join(_, _)
Join(seq, sep) ==
    IF seq = <<>> THEN ""
    ELSE IF Len(seq) = 1 THEN seq[1]
    ELSE seq[1] \o sep \o Join(Tail(seq), sep)

\* String.prototype.includes
Includes(s, sub) ==
    \E i \in 1..(Len(s) - Len(sub) + 1) : SubSeq(s, i, i + Len(sub) - 1) = sub

\* String.prototype.indexOf, 1-based; 0 when sub does not occur.
IndexOf(s, sub) ==
    IF Includes(s, sub)
    THEN CHOOSE i \in 1..(Len(s) - Len(sub) + 1) :
            /\ SubSeq(s, i, i + Len(sub) - 1) = sub
            /\ \A j \in 1..(i - 1) : SubSeq(s, j, j + Len(sub) - 1) # sub
    ELSE 0

\* String.prototype.startsWith
StartsWith(s, prefix) ==
    Len(s) >= Len(prefix) /\ SubSeq(s, 1, Len(prefix)) = prefix

\* s.split("/").pop(): what follows the last "/" of s.
RECURSIVE SplitPop(_)
SplitPop(s) ==
    IF Includes(s, "/")
    THEN SplitPop(SubSeq(s, IndexOf(s, "/") + 1, Len(s)))
    ELSE s

-----------------------------------------------------------------------------
(* shopifyqlHelpers *)

periodMap ==
    [today        |-> "SINCE today",
     yesterday    |-> "DURING yesterday",
     last_7_days  |-> "SINCE -7d",
     last_30_days |-> "SINCE -30d",
     last_90_days |-> "SINCE -90d",
     last_month   |-> "DURING last_month",
     this_month   |-> "SINCE startOfMonth(0m)",
     this_year    |-> "SINCE startOfYear(0y)",
     last_year    |-> "DURING last_year"]

periodToShopifyQL(period) ==
    OrElse(PropertyLookup(periodMap, period), JSString("SINCE -30d"))

groupByMap ==
    [day           |-> "GROUP BY day",
     week          |-> "GROUP BY week",
     month         |-> "GROUP BY month",
     product       |-> "GROUP BY product_title",
     product_type  |-> "GROUP BY product_type",
     channel       |-> "GROUP BY sales_channel",
     region        |-> "GROUP BY billing_country",
     customer_type |-> "GROUP BY customer_type"]

groupByToShopifyQL(groupBy) ==
    OrElse(PropertyLookup(groupByMap, groupBy), JSString("GROUP BY day"))

orderByMap ==
    [day           |-> "ORDER BY day",
     week          |-> "ORDER BY week",
     month         |-> "ORDER BY month",
     product       |-> "ORDER BY total_sales DESC",
     product_type  |-> "ORDER BY total_sales DESC",
     channel       |-> "ORDER BY total_sales DESC",
     region        |-> "ORDER BY total_sales DESC",
     customer_type |-> "ORDER BY total_sales DESC"]

groupByToOrderBy(groupBy) ==
    OrElse(PropertyLookup(orderByMap, groupBy), JSString("ORDER BY day"))

\* if (options.<key>) for a string-valued optional key
GivenString(options, key) == key \in DOMAIN options /\ options[key] # ""

\* if (options.<key>) for a number-valued optional key
GivenNumber(options, key) == key \in DOMAIN options /\ options[key] # 0

\* (the groupBy-derived ordering is pushed even when orderBy is given)
buildParts_BothOrderings(options) ==
    <<"FROM " \o options.from, "SHOW " \o Join(options.show, ", ")>>
    \o (IF GivenString(options, "where")
        THEN <<"WHERE " \o options.where>> ELSE <<>>)
    \o <<periodToShopifyQL(options.period).str>>
    \o (IF GivenString(options, "groupBy")
        THEN <<groupByToShopifyQL(options.groupBy).str>> ELSE <<>>)
    \o (IF GivenString(options, "orderBy") THEN <<options.orderBy>> ELSE <<>>)
    \o (IF GivenString(options, "groupBy")
        THEN <<groupByToOrderBy(options.groupBy).str>> ELSE <<>>)
    \o (IF GivenNumber(options, "limit")
        THEN <<"LIMIT " \o ToString(options.limit)>> ELSE <<>>)

\* The parts array of buildShopifyQLQuery, as strings ready to be joined.
buildParts(options) ==
    <<"FROM " \o options.from, "SHOW " \o Join(options.show, ", ")>>
    \o (IF GivenString(options, "where")
        THEN <<"WHERE " \o options.where>> ELSE <<>>)
    \o <<periodToShopifyQL(options.period).str>>
    \o (IF GivenString(options, "groupBy")
        THEN <<groupByToShopifyQL(options.groupBy).str>> ELSE <<>>)
    \o (IF GivenString(options, "orderBy") THEN <<options.orderBy>>
        ELSE IF GivenString(options, "groupBy")
        THEN <<groupByToOrderBy(options.groupBy).str>> ELSE <<>>)
    \o (IF GivenNumber(options, "limit")
        THEN <<"LIMIT " \o ToString(options.limit)>> ELSE <<>>)

buildShopifyQLQuery_CommaJoined(options) == Join(buildParts(options), ", ")

buildShopifyQLQuery(options) == Join(buildParts(options), " ")

-----------------------------------------------------------------------------
(* zod: the field validators the schemas are made of.  A value that is     *)
(* absent from the arguments takes the field's default when it has one, is *)
(* left absent when the field is optional, and is an issue otherwise.      *)

ZField(kind, bounded, lo, hi, minLen, pattern, members, dflt, optional) ==
    [kind |-> kind, bounded |-> bounded, lo |-> lo, hi |-> hi,
     minLen |-> minLen, pattern |-> pattern, members |-> members,
     dflt |-> dflt, optional |-> optional]

\* z.number().min(lo).max(hi).default(d)
ZNumber(lo, hi, d) ==
    ZField("number", TRUE, lo, hi, 0, "", {}, Some(d), FALSE)
\* z.number().default(d)
ZNumberDefault(d) == ZField("number", FALSE, 0, 0, 0, "", {}, Some(d), FALSE)
\* z.string()
ZString == ZField("string", FALSE, 0, 0, 0, "", {}, None, FALSE)
\* z.string().min(n)
ZStringMin(n) == ZField("string", FALSE, 0, 0, n, "", {}, None, FALSE)
\* z.string().optional()
ZStringOptional == ZField("string", FALSE, 0, 0, 0, "", {}, None, TRUE)
\* z.string().regex(/^\d+$/)
ZStringDigits == ZField("string", FALSE, 0, 0, 0, "digits", {}, None, FALSE)
\* z.string().email().optional()
ZEmailOptional == ZField("string", FALSE, 0, 0, 0, "email", {}, None, TRUE)
\* z.enum(members).default(d)
ZEnum(members, d) == ZField("enum", FALSE, 0, 0, 0, "", members, Some(d), FALSE)
\* z.boolean().default(d)
ZBoolean(d) == ZField("boolean", FALSE, 0, 0, 0, "", {}, Some(d), FALSE)
\* z.boolean().optional()
ZBooleanOptional == ZField("boolean", FALSE, 0, 0, 0, "", {}, None, TRUE)
\* z.array(z.enum(members)).default(d)
ZArrayOfEnum(members, d) ==
    ZField("array", FALSE, 0, 0, 0, "", members, Some(d), FALSE)
\* z.array(z.string()).optional() and the optional arrays and objects of
\* strings of update-order and update-customer
ZStructureOptional == ZField("structure", FALSE, 0, 0, 0, "", {}, None, TRUE)

Digits == {"0", "1", "2", "3", "4", "5", "6", "7", "8", "9"}

\* /^\d+$/.test(s)
AllDigits(s) ==
    Len(s) > 0 /\ \A i \in 1..Len(s) : SubSeq(s, i, i) \in Digits

\* The shape of an address accepted by z.string().email(): something, an @,
\* something with a dot in it.
LooksLikeEmail(s) ==
    /\ Includes(s, "@")
    /\ IndexOf(s, "@") > 1
    /\ Includes(SubSeq(s, IndexOf(s, "@") + 1, Len(s)), ".")

\* Whether a value of the field's type passes the field's checks.
ZAccepts(f, v) ==
    CASE f.kind = "number" -> f.bounded => (f.lo <= v /\ v <= f.hi)
      [] f.kind = "string" ->
            /\ Len(v) >= f.minLen
            /\ f.pattern = "digits" => AllDigits(v)
            /\ f.pattern = "email" => LooksLikeEmail(v)
      [] f.kind = "enum" -> v \in f.members
      [] f.kind = "boolean" -> v \in BOOLEAN
      [] f.kind = "array" -> \A i \in 1..Len(v) : v[i] \in f.members
      [] f.kind = "structure" -> TRUE

\* The fields of the arguments that fail the schema.
ZIssues(schema, a) ==
    {f \in DOMAIN schema :
        IF f \in DOMAIN a THEN ~ZAccepts(schema[f], a[f])
        ELSE schema[f].dflt = None /\ ~schema[f].optional}

\* z.object(schema).safeParse(a): unknown keys are stripped, defaults filled.
ZParse(schema, a) ==
    IF ZIssues(schema, a) = {}
    THEN [success |-> TRUE,
          data |-> [f \in {g \in DOMAIN schema :
                              g \in DOMAIN a \/ schema[g].dflt # None} |->
                      IF f \in DOMAIN a THEN a[f] ELSE schema[f].dflt[1]],
          issues |-> {}]
    ELSE [success |-> FALSE, data |-> <<>>, issues |-> ZIssues(schema, a)]

-----------------------------------------------------------------------------
(* The schemas registered with the server (server.tool calls) *)

RegisteredGetProducts ==
    [searchTitle |-> ZStringOptional, limit |-> ZNumberDefault(10)]

RegisteredGetProductById == [productId |-> ZStringMin(1)]

RegisteredGetCustomers ==
    [searchQuery |-> ZStringOptional, limit |-> ZNumberDefault(10)]

RegisteredGetOrders ==
    [status |-> ZEnum({"any", "open", "closed", "cancelled"}, "any"),
     limit |-> ZNumberDefault(10)]

RegisteredGetOrderById == [orderId |-> ZStringMin(1)]

RegisteredUpdateOrder ==
    [id |-> ZStringMin(1), tags |-> ZStructureOptional,
     email |-> ZEmailOptional, note |-> ZStringOptional,
     customAttributes |-> ZStructureOptional,
     metafields |-> ZStructureOptional,
     shippingAddress |-> ZStructureOptional]

RegisteredGetCustomerOrders ==
    [customerId |-> ZStringDigits, limit |-> ZNumberDefault(10)]

RegisteredUpdateCustomer ==
    [id |-> ZStringDigits, firstName |-> ZStringOptional,
     lastName |-> ZStringOptional, email |-> ZEmailOptional,
     phone |-> ZStringOptional, tags |-> ZStructureOptional,
     note |-> ZStringOptional, taxExempt |-> ZBooleanOptional,
     metafields |-> ZStructureOptional]

RegisteredCreateProduct ==
    [title |-> ZStringMin(1), descriptionHtml |-> ZStringOptional,
     vendor |-> ZStringOptional, productType |-> ZStringOptional,
     tags |-> ZStructureOptional,
     status |-> ZEnum({"ACTIVE", "DRAFT", "ARCHIVED"}, "DRAFT")]

RegisteredRunShopifyqlQuery == [query |-> ZStringMin(1)]

RegisteredGetSalesReport ==
    [period |-> ZEnum({"today", "yesterday", "last_7_days", "last_30_days",
                       "last_90_days", "last_month", "this_month",
                       "this_year", "last_year"}, "last_30_days"),
     groupBy |-> ZEnum({"day", "week", "month", "product", "channel",
                        "region"}, "day"),
     metrics |-> ZArrayOfEnum({"total_sales", "net_sales", "orders",
                               "average_order_value", "gross_profit",
                               "units_sold", "returns", "discounts"},
                              <<"total_sales", "orders">>),
     limit |-> ZNumber(1, 500, 100)]

\* (the registration admits a period the helper has no clause for)
RegisteredGetProductPerformance_LastWeek ==
    [period |-> ZEnum({"last_week", "last_30_days", "last_90_days",
                       "this_month", "last_month", "this_year"},
                      "last_30_days"),
     sortBy |-> ZEnum({"total_sales", "orders", "units_sold"}, "total_sales"),
     limit |-> ZNumber(1, 100, 20),
     productType |-> ZStringOptional]

RegisteredGetProductPerformance ==
    [period |-> ZEnum({"last_7_days", "last_30_days", "last_90_days",
                       "this_month", "last_month", "this_year"},
                      "last_30_days"),
     sortBy |-> ZEnum({"total_sales", "orders", "units_sold"}, "total_sales"),
     limit |-> ZNumber(1, 100, 20),
     productType |-> ZStringOptional]

RegisteredGetCustomerAnalytics ==
    [period |-> ZEnum({"last_7_days", "last_30_days", "last_90_days",
                       "this_month", "last_month", "this_year", "last_year"},
                      "last_30_days"),
     reportType |-> ZEnum({"acquisition", "retention", "spending",
                           "overview"}, "overview"),
     groupBy |-> ZEnum({"day", "week", "month"}, "day")]

RegisteredGetLocations ==
    [limit |-> ZNumber(1, 50, 20), includeInactive |-> ZBoolean(FALSE)]

RegisteredGetInventoryLevels ==
    [limit |-> ZNumber(1, 50, 20), sku |-> ZStringOptional,
     productId |-> ZStringOptional]

RegisteredGetCollections_Max250 ==
    [limit |-> ZNumber(1, 250, 20), searchQuery |-> ZStringOptional,
     collectionType |-> ZEnum({"smart", "manual", "all"}, "all")]

RegisteredGetCollections ==
    [limit |-> ZNumber(1, 50, 20), searchQuery |-> ZStringOptional,
     collectionType |-> ZEnum({"smart", "manual", "all"}, "all")]

RegisteredSearchOrders ==
    [query |-> ZString, limit |-> ZNumber(1, 50, 20),
     sortKey |-> ZEnum({"CREATED_AT", "CUSTOMER_NAME", "FINANCIAL_STATUS",
                        "FULFILLMENT_STATUS", "ORDER_NUMBER", "PROCESSED_AT",
                        "TOTAL_PRICE", "UPDATED_AT"}, "CREATED_AT"),
     reverse |-> ZBoolean(TRUE)]

\* Tools whose source is part of the repository snapshot.
SourceTools ==
    {"run-shopifyql-query", "get-sales-report", "get-product-performance",
     "get-customer-analytics", "get-locations", "get-inventory-levels",
     "get-collections", "search-orders"}

\* Tools that are registered but whose own source is not in the snapshot.
ImportedTools ==
    {"get-products", "get-product-by-id", "get-customers", "get-orders",
     "get-order-by-id", "update-order", "get-customer-orders",
     "update-customer", "create-product"}

ToolNames == ImportedTools \cup SourceTools

AnalyticsTools ==
    {"run-shopifyql-query", "get-sales-report", "get-product-performance",
     "get-customer-analytics"}

\* The schema passed to server.tool under each name.
RegisteredSchema(t) ==
    CASE t = "get-products" -> RegisteredGetProducts
      [] t = "get-product-by-id" -> RegisteredGetProductById
      [] t = "get-customers" -> RegisteredGetCustomers
      [] t = "get-orders" -> RegisteredGetOrders
      [] t = "get-order-by-id" -> RegisteredGetOrderById
      [] t = "update-order" -> RegisteredUpdateOrder
      [] t = "get-customer-orders" -> RegisteredGetCustomerOrders
      [] t = "update-customer" -> RegisteredUpdateCustomer
      [] t = "create-product" -> RegisteredCreateProduct
      [] t = "run-shopifyql-query" -> RegisteredRunShopifyqlQuery
      [] t = "get-sales-report" -> RegisteredGetSalesReport
      [] t = "get-product-performance" -> RegisteredGetProductPerformance
      [] t = "get-customer-analytics" -> RegisteredGetCustomerAnalytics
      [] t = "get-locations" -> RegisteredGetLocations
      [] t = "get-inventory-levels" -> RegisteredGetInventoryLevels
      [] t = "get-collections" -> RegisteredGetCollections
      [] t = "search-orders" -> RegisteredSearchOrders

-----------------------------------------------------------------------------
(* The tools' own input schemas *)

GetLocationsInputSchema ==
    [limit |-> ZNumber(1, 50, 20), includeInactive |-> ZBoolean(FALSE)]

GetInventoryLevelsInputSchema ==
    [limit |-> ZNumber(1, 50, 20), sku |-> ZStringOptional,
     productId |-> ZStringOptional]

GetCollectionsInputSchema ==
    [limit |-> ZNumber(1, 50, 20), searchQuery |-> ZStringOptional,
     collectionType |-> ZEnum({"smart", "manual", "all"}, "all")]

SearchOrdersInputSchema ==
    [query |-> ZString, limit |-> ZNumber(1, 50, 20),
     sortKey |-> ZEnum({"CREATED_AT", "CUSTOMER_NAME", "FINANCIAL_STATUS",
                        "FULFILLMENT_STATUS", "ORDER_NUMBER", "PROCESSED_AT",
                        "TOTAL_PRICE", "UPDATED_AT"}, "CREATED_AT"),
     reverse |-> ZBoolean(TRUE)]

RunShopifyqlQueryInputSchema == [query |-> ZStringMin(1)]

GetSalesReportInputSchema ==
    [period |-> ZEnum({"today", "yesterday", "last_7_days", "last_30_days",
                       "last_90_days", "last_month", "this_month",
                       "this_year", "last_year"}, "last_30_days"),
     groupBy |-> ZEnum({"day", "week", "month", "product", "channel",
                        "region"}, "day"),
     metrics |-> ZArrayOfEnum({"total_sales", "net_sales", "orders",
                               "average_order_value", "gross_profit",
                               "units_sold", "returns", "discounts"},
                              <<"total_sales", "orders">>),
     limit |-> ZNumber(1, 500, 100)]

GetProductPerformanceInputSchema ==
    [period |-> ZEnum({"last_7_days", "last_30_days", "last_90_days",
                       "this_month", "last_month", "this_year"},
                      "last_30_days"),
     sortBy |-> ZEnum({"total_sales", "orders", "units_sold"}, "total_sales"),
     limit |-> ZNumber(1, 100, 20),
     productType |-> ZStringOptional]

GetCustomerAnalyticsInputSchema ==
    [period |-> ZEnum({"last_7_days", "last_30_days", "last_90_days",
                       "this_month", "last_month", "this_year", "last_year"},
                      "last_30_days"),
     reportType |-> ZEnum({"acquisition", "retention", "spending",
                           "overview"}, "overview"),
     groupBy |-> ZEnum({"day", "week", "month"}, "day")]

\* The schema field of each tool object whose source is in the snapshot.
OwnSchema(t) ==
    CASE t = "run-shopifyql-query" -> RunShopifyqlQueryInputSchema
      [] t = "get-sales-report" -> GetSalesReportInputSchema
      [] t = "get-product-performance" -> GetProductPerformanceInputSchema
      [] t = "get-customer-analytics" -> GetCustomerAnalyticsInputSchema
      [] t = "get-locations" -> GetLocationsInputSchema
      [] t = "get-inventory-levels" -> GetInventoryLevelsInputSchema
      [] t = "get-collections" -> GetCollectionsInputSchema
      [] t = "search-orders" -> SearchOrdersInputSchema

-----------------------------------------------------------------------------
(* What a tool's execute does before it awaits shopifyClient.request: the  *)
(* variables of the one GraphQL request.  A variable that is undefined is  *)
(* not a key of the variables.                                             *)

\* An object from <<key, optional value>> pairs: absent values give no key.
Obj(pairs) ==
    LET present == {i \in 1..Len(pairs) : pairs[i][2] # None}
    IN  [k \in {pairs[i][1] : i \in present} |->
            (pairs[CHOOSE i \in present : pairs[i][1] = k][2])[1]]

getLocationsVariables(in) ==
    [first |-> in.limit, includeInactive |-> in.includeInactive]

\* (the product id is sent as given, without extracting the last segment)
getInventoryLevelsQueryFilter_WholeId(in) ==
    IF GivenString(in, "sku") THEN Some("sku:" \o in.sku)
    ELSE IF GivenString(in, "productId")
    THEN Some("product_id:" \o in.productId)
    ELSE None

\* queryFilter of getInventoryLevels.execute (undefined is None)
getInventoryLevelsQueryFilter(in) ==
    IF GivenString(in, "sku") THEN Some("sku:" \o in.sku)
    ELSE IF GivenString(in, "productId")
    THEN Some("product_id:" \o (IF Includes(in.productId, "/")
                                THEN SplitPop(in.productId)
                                ELSE in.productId))
    ELSE None

getInventoryLevelsVariables(in) ==
    Obj(<< <<"first", Some(in.limit)>>,
           <<"query", getInventoryLevelsQueryFilter(in)>> >>)

\* (the type term comes first and manual is sent as collection_type:manual)
getCollectionsFilters_TypeFirst(in) ==
    (IF in.collectionType = "smart" THEN <<"collection_type:smart">>
     ELSE IF in.collectionType = "manual" THEN <<"collection_type:manual">>
     ELSE <<>>)
    \o (IF GivenString(in, "searchQuery")
        THEN <<"title:*" \o in.searchQuery \o "*">> ELSE <<>>)

\* filters of getCollections.execute
getCollectionsFilters(in) ==
    (IF GivenString(in, "searchQuery")
     THEN <<"title:*" \o in.searchQuery \o "*">> ELSE <<>>)
    \o (IF in.collectionType = "smart" THEN <<"collection_type:smart">>
        ELSE IF in.collectionType = "manual" THEN <<"collection_type:custom">>
        ELSE <<>>)

getCollectionsQueryFilter(in) ==
    IF Len(getCollectionsFilters(in)) > 0
    THEN Some(Join(getCollectionsFilters(in), " AND "))
    ELSE None

getCollectionsVariables(in) ==
    Obj(<< <<"first", Some(in.limit)>>,
           <<"query", getCollectionsQueryFilter(in)>> >>)

searchOrdersVariables(in) ==
    [first |-> in.limit, query |-> in.query, sortKey |-> in.sortKey,
     reverse |-> in.reverse]

runShopifyqlQueryQuery(in) == in.query

getSalesReportQuery(in) ==
    buildShopifyQLQuery([from |-> "sales", show |-> in.metrics,
                         groupBy |-> in.groupBy, period |-> in.period,
                         limit |-> in.limit])

getProductPerformanceQuery(in) ==
    LET metrics == <<"product_title", "total_sales", "orders", "units_sold">>
        periodClause == periodToShopifyQL(in.period).str
        whereClause == IF GivenString(in, "productType")
                       THEN "WHERE product_type = '" \o in.productType \o "'"
                       ELSE ""
    IN  "FROM sales SHOW " \o Join(metrics, ", ") \o " " \o whereClause
        \o " " \o periodClause \o " GROUP BY product_title ORDER BY "
        \o in.sortBy \o " DESC LIMIT " \o ToString(in.limit)

getCustomerAnalyticsQuery(in) ==
    LET periodClause == periodToShopifyQL(in.period).str
    IN  CASE in.reportType = "acquisition" ->
               "FROM sales SHOW total_sales, orders WHERE customer_type = 'First-time' OR customer_type = 'Returning' "
               \o periodClause \o " GROUP BY customer_type, " \o in.groupBy
               \o " ORDER BY " \o in.groupBy
          [] in.reportType = "retention" ->
               "FROM sales SHOW total_sales, orders, average_order_value "
               \o periodClause
               \o " GROUP BY customer_type ORDER BY total_sales DESC"
          [] in.reportType = "spending" ->
               "FROM sales SHOW total_sales, orders, average_order_value "
               \o periodClause
               \o " GROUP BY billing_country ORDER BY total_sales DESC LIMIT 20"
          [] OTHER ->
               "FROM sales SHOW total_sales, orders, average_order_value "
               \o periodClause \o " GROUP BY customer_type, " \o in.groupBy
               \o " ORDER BY " \o in.groupBy

\* The ShopifyQL text an analytics tool sends as $query.
ShopifyqlQueryOf(t, in) ==
    CASE t = "run-shopifyql-query" -> runShopifyqlQueryQuery(in)
      [] t = "get-sales-report" -> getSalesReportQuery(in)
      [] t = "get-product-performance" -> getProductPerformanceQuery(in)
      [] t = "get-customer-analytics" -> getCustomerAnalyticsQuery(in)

\* The execute of a tool whose source is not in the snapshot: per the
\* design it sends one request built from its input.
ImportedToolVariables(in) == [input |-> in]

\* The variables of the request that execute of tool t issues.
RequestVariables(t, in) ==
    CASE t \in AnalyticsTools -> [query |-> ShopifyqlQueryOf(t, in)]
      [] t = "get-locations" -> getLocationsVariables(in)
      [] t = "get-inventory-levels" -> getInventoryLevelsVariables(in)
      [] t = "get-collections" -> getCollectionsVariables(in)
      [] t = "search-orders" -> searchOrdersVariables(in)
      [] OTHER -> ImportedToolVariables(in)

-----------------------------------------------------------------------------
(* What execute does once the request settled.  A remote response is       *)
(* [kind |-> "reject", message] when the request promise rejects,          *)
(* [kind |-> "data", edges] for the connection tools and                   *)
(* [kind |-> "data", tableData, parseErrors] for the analytics tools;      *)
(* [kind |-> "malformed", missing] is a response in which an object the    *)
(* code dereferences is null, so reading its field `missing` throws.       *)

Returned(envelope) ==
    [kind |-> "returned", envelope |-> envelope, message |-> "",
     mapped |-> TRUE, logged |-> <<>>]

\* The catch block: console.error(<label>, error), then
\* throw new Error(`<prefix>: ${error.message}`).
Threw(prefix, message, reachedMapping) ==
    [kind |-> "threw", envelope |-> <<>>, message |-> prefix \o ": " \o message,
     mapped |-> reachedMapping, logged |-> <<message>>]

\* The TypeError of reading a field of null.
NullReadMessage(field) ==
    "Cannot read properties of null (reading '" \o field \o "')"

\* SEQ.map(f)
MapSeq(f(_), seq) == [i \in 1..Len(seq) |-> f(seq[i])]

\* x || null for an optional string x
StringOrNull(x) == IF x # None /\ x[1] # "" THEN x ELSE None

RECURSIVE SumSeq(_)
\* SEQ.reduce((sum, n) => sum + n, 0)
SumSeq(seq) == IF seq = <<>> THEN 0 ELSE seq[1] + SumSeq(Tail(seq))

\* ---- getLocations ----
getLocationsMapNode(loc) ==
    [id |-> loc.id, name |-> loc.name, isActive |-> loc.isActive,
     fulfillsOnlineOrders |-> loc.fulfillsOnlineOrders,
     hasActiveInventory |-> loc.hasActiveInventory,
     shipsInventory |-> loc.shipsInventory,
     address |-> [address1 |-> loc.address.address1,
                  address2 |-> loc.address.address2,
                  city |-> loc.address.city,
                  province |-> loc.address.province,
                  provinceCode |-> loc.address.provinceCode,
                  country |-> loc.address.country,
                  countryCode |-> loc.address.countryCode,
                  zip |-> loc.address.zip,
                  phone |-> loc.address.phone]]

getLocationsEnvelope(edges) ==
    LET locations == MapSeq(getLocationsMapNode, edges)
    IN  [locations |-> locations, locationCount |-> Len(locations)]

\* ---- getInventoryLevels ----
\* quantityMap[name] || 0 after the forEach over level.quantities: the last
\* entry of that name wins; a missing entry or a quantity of 0 gives 0.
QuantityOrZero_DefaultOne(quantities, name) ==
    LET at == {i \in 1..Len(quantities) : quantities[i].name = name}
    IN  IF at = {} THEN 1
        ELSE quantities[CHOOSE i \in at : \A j \in at : j <= i].quantity

QuantityOrZero(quantities, name) ==
    LET at == {i \in 1..Len(quantities) : quantities[i].name = name}
    IN  IF at = {} THEN 0
        ELSE quantities[CHOOSE i \in at : \A j \in at : j <= i].quantity

getInventoryLevelsMapLevel(level) ==
    [locationId |-> level.location.id,
     locationName |-> level.location.name,
     available |-> QuantityOrZero(level.quantities, "available"),
     incoming |-> QuantityOrZero(level.quantities, "incoming"),
     committed |-> QuantityOrZero(level.quantities, "committed"),
     reserved |-> QuantityOrZero(level.quantities, "reserved"),
     onHand |-> QuantityOrZero(level.quantities, "on_hand")]

getInventoryLevelsAvailable(l) == l.available
getInventoryLevelsOnHand(l) == l.onHand

getInventoryLevelsMapNode(item) ==
    LET levels == MapSeq(getInventoryLevelsMapLevel, item.inventoryLevels)
    IN  [id |-> item.id, sku |-> item.sku, tracked |-> item.tracked,
         variant |-> IF item.variant # None
                     THEN Some([id |-> item.variant[1].id,
                                title |-> item.variant[1].title,
                                displayName |-> item.variant[1].displayName,
                                productId |-> item.variant[1].product.id,
                                productTitle |-> item.variant[1].product.title])
                     ELSE None,
         inventoryLevels |-> levels,
         totalAvailable |-> SumSeq(MapSeq(getInventoryLevelsAvailable, levels)),
         totalOnHand |-> SumSeq(MapSeq(getInventoryLevelsOnHand, levels))]

getInventoryLevelsEnvelope(edges) ==
    LET inventoryItems == MapSeq(getInventoryLevelsMapNode, edges)
    IN  [inventoryItems |-> inventoryItems, itemCount |-> Len(inventoryItems)]

\* ---- getCollections ----
\* (every collection that has a ruleSet counts as smart)
getCollectionsIsSmart_AnyRuleSet(col) == col.ruleSet # None

getCollectionsIsSmart(col) ==
    col.ruleSet # None /\ Len(col.ruleSet[1].rules) > 0

getCollectionsMapNode(col) ==
    [id |-> col.id, title |-> col.title, handle |-> col.handle,
     description |-> col.description,
     productCount |-> col.productsCount.count,
     sortOrder |-> col.sortOrder,
     templateSuffix |-> col.templateSuffix,
     updatedAt |-> col.updatedAt,
     imageUrl |-> IF col.image = None THEN None
                  ELSE StringOrNull(Some(col.image[1].url)),
     imageAltText |-> IF col.image = None THEN None
                      ELSE StringOrNull(col.image[1].altText),
     collectionType |-> IF getCollectionsIsSmart(col) THEN "smart" ELSE "manual",
     rules |-> IF getCollectionsIsSmart(col)
               THEN Some([appliedDisjunctively |->
                              col.ruleSet[1].appliedDisjunctively,
                          rules |-> col.ruleSet[1].rules])
               ELSE None]

getCollectionsEnvelope(edges) ==
    LET collections == MapSeq(getCollectionsMapNode, edges)
    IN  [collections |-> collections, collectionCount |-> Len(collections)]

\* ---- searchOrders ----
searchOrdersMoney(set) ==
    [amount |-> set.shopMoney.amount,
     currencyCode |-> set.shopMoney.currencyCode]

searchOrdersMapLineItem(li) ==
    [title |-> li.title, quantity |-> li.quantity,
     totalPrice |-> searchOrdersMoney(li.originalTotalSet)]

searchOrdersMapNode(order) ==
    [id |-> order.id, name |-> order.name, createdAt |-> order.createdAt,
     updatedAt |-> order.updatedAt, processedAt |-> order.processedAt,
     financialStatus |-> order.displayFinancialStatus,
     fulfillmentStatus |-> order.displayFulfillmentStatus,
     confirmed |-> order.confirmed, closed |-> order.closed,
     cancelledAt |-> order.cancelledAt,
     totalPrice |-> searchOrdersMoney(order.totalPriceSet),
     subtotalPrice |-> searchOrdersMoney(order.subtotalPriceSet),
     totalTax |-> searchOrdersMoney(order.totalTaxSet),
     totalShipping |-> searchOrdersMoney(order.totalShippingPriceSet),
     customer |-> IF order.customer # None
                  THEN Some([id |-> order.customer[1].id,
                             firstName |-> order.customer[1].firstName,
                             lastName |-> order.customer[1].lastName,
                             email |-> order.customer[1].email])
                  ELSE None,
     shippingAddress |-> IF order.shippingAddress # None
                         THEN Some([city |-> order.shippingAddress[1].city,
                                    province |-> order.shippingAddress[1].province,
                                    country |-> order.shippingAddress[1].country])
                         ELSE None,
     tags |-> order.tags, note |-> order.note,
     lineItems |-> MapSeq(searchOrdersMapLineItem, order.lineItems)]

\* (orderCount echoes the requested limit)
searchOrdersEnvelope_CountIsLimit(in, edges) ==
    LET orders == MapSeq(searchOrdersMapNode, edges)
    IN  [query |-> in.query, sortKey |-> in.sortKey, reverse |-> in.reverse,
         orders |-> orders, orderCount |-> in.limit]

searchOrdersEnvelope(in, edges) ==
    LET orders == MapSeq(searchOrdersMapNode, edges)
    IN  [query |-> in.query, sortKey |-> in.sortKey, reverse |-> in.reverse,
         orders |-> orders, orderCount |-> Len(orders)]

\* ---- the analytics tools ----
\* rows.map(row => { columns.forEach((col, index) => o[col.name] = row[index]) })
RowObject(columns, row) ==
    [n \in {columns[i].name : i \in 1..Len(columns)} |->
        row[CHOOSE i \in 1..Len(columns) :
               /\ columns[i].name = n
               /\ \A j \in 1..Len(columns) : columns[j].name = n => j <= i]]

RowObjects(tableData) ==
    [i \in 1..Len(tableData.rows) |->
        RowObject(tableData.columns, tableData.rows[i])]

runShopifyqlQueryEnvelope(tableData) ==
    IF tableData = None THEN [columns |-> <<>>, rows |-> <<>>, rowCount |-> 0]
    ELSE [columns |-> tableData[1].columns, rows |-> tableData[1].rows,
          rowCount |-> Len(tableData[1].rows)]

getSalesReportEnvelope(in, q, tableData) ==
    IF tableData = None
    THEN [query |-> q, period |-> in.period, groupBy |-> in.groupBy,
          columns |-> <<>>, rows |-> <<>>, rowCount |-> 0]
    ELSE [query |-> q, period |-> in.period, groupBy |-> in.groupBy,
          columns |-> tableData[1].columns, rows |-> tableData[1].rows,
          rowCount |-> Len(tableData[1].rows)]

getProductPerformanceEnvelope(in, q, tableData) ==
    IF tableData = None
    THEN [query |-> q, period |-> in.period, sortBy |-> in.sortBy,
          columns |-> <<>>, products |-> <<>>, productCount |-> 0]
    ELSE [query |-> q, period |-> in.period, sortBy |-> in.sortBy,
          columns |-> tableData[1].columns,
          products |-> RowObjects(tableData[1]),
          productCount |-> Len(RowObjects(tableData[1]))]

getCustomerAnalyticsEnvelope(in, q, tableData) ==
    IF tableData = None
    THEN [query |-> q, period |-> in.period, reportType |-> in.reportType,
          columns |-> <<>>, rows |-> <<>>, rowCount |-> 0]
    ELSE [query |-> q, period |-> in.period, reportType |-> in.reportType,
          groupBy |-> in.groupBy, columns |-> tableData[1].columns,
          results |-> RowObjects(tableData[1]),
          rowCount |-> Len(RowObjects(tableData[1]))]

AnalyticsEnvelope(t, in, q, tableData) ==
    CASE t = "run-shopifyql-query" -> runShopifyqlQueryEnvelope(tableData)
      [] t = "get-sales-report" -> getSalesReportEnvelope(in, q, tableData)
      [] t = "get-product-performance" ->
            getProductPerformanceEnvelope(in, q, tableData)
      [] t = "get-customer-analytics" ->
            getCustomerAnalyticsEnvelope(in, q, tableData)

\* The message prefix of each tool's catch block.
ErrorPrefix(t) ==
    CASE t = "run-shopifyql-query" -> "Failed to execute ShopifyQL query"
      [] t = "get-sales-report" -> "Failed to fetch sales report"
      [] t = "get-product-performance" -> "Failed to fetch product performance"
      [] t = "get-customer-analytics" -> "Failed to fetch customer analytics"
      [] t = "get-locations" -> "Failed to fetch locations"
      [] t = "get-inventory-levels" -> "Failed to fetch inventory levels"
      [] t = "get-collections" -> "Failed to fetch collections"
      [] t = "search-orders" -> "Failed to search orders"

\* if (parseErrors && parseErrors.length > 0)
HasParseErrors(r) == r.parseErrors # None /\ Len(r.parseErrors[1]) > 0

\* (the catch block raises a fixed message and drops the cause)
MalformedOutcome_CauseDropped(t, r) ==
    Threw(ErrorPrefix(t), "Unknown error", r.missing # "parseErrors")

\* Reading the missing field of a malformed response throws inside the try
\* block; only data.shopifyqlQuery.parseErrors is read before the
\* "Format ..." section.
MalformedOutcome(t, r) ==
    Threw(ErrorPrefix(t), NullReadMessage(r.missing),
          r.missing # "parseErrors")

\* An analytics execute after the await: the parse-error check comes first,
\* then the formatting of tableData.
AnalyticsOutcome_TableDataFirst(t, in, q, r) ==
    IF r.kind = "reject" THEN Threw(ErrorPrefix(t), r.message, FALSE)
    ELSE IF r.kind = "malformed" THEN MalformedOutcome(t, r)
    ELSE IF r.tableData # None
    THEN Returned(AnalyticsEnvelope(t, in, q, r.tableData))
    ELSE IF HasParseErrors(r)
    THEN Threw(ErrorPrefix(t),
               "ShopifyQL parse errors: " \o Join(r.parseErrors[1], "; "),
               FALSE)
    ELSE Returned(AnalyticsEnvelope(t, in, q, r.tableData))

\* (no null check of tableData before tableData.rows is read)
AnalyticsOutcome_NoNullCheck(t, in, q, r) ==
    IF r.kind = "reject" THEN Threw(ErrorPrefix(t), r.message, FALSE)
    ELSE IF r.kind = "malformed" THEN MalformedOutcome(t, r)
    ELSE IF HasParseErrors(r)
    THEN Threw(ErrorPrefix(t),
               "ShopifyQL parse errors: " \o Join(r.parseErrors[1], "; "),
               FALSE)
    ELSE IF r.tableData = None
    THEN Threw(ErrorPrefix(t),
               "Cannot read properties of null (reading 'rows')", TRUE)
    ELSE Returned(AnalyticsEnvelope(t, in, q, r.tableData))

AnalyticsOutcome(t, in, q, r) ==
    IF r.kind = "reject" THEN Threw(ErrorPrefix(t), r.message, FALSE)
    ELSE IF r.kind = "malformed" THEN MalformedOutcome(t, r)
    ELSE IF HasParseErrors(r)
    THEN Threw(ErrorPrefix(t),
               "ShopifyQL parse errors: " \o Join(r.parseErrors[1], "; "),
               FALSE)
    ELSE Returned(AnalyticsEnvelope(t, in, q, r.tableData))

ConnectionEnvelope(t, in, edges) ==
    CASE t = "get-locations" -> getLocationsEnvelope(edges)
      [] t = "get-inventory-levels" -> getInventoryLevelsEnvelope(edges)
      [] t = "get-collections" -> getCollectionsEnvelope(edges)
      [] t = "search-orders" -> searchOrdersEnvelope(in, edges)

ConnectionOutcome(t, in, r) ==
    IF r.kind = "reject" THEN Threw(ErrorPrefix(t), r.message, FALSE)
    ELSE IF r.kind = "malformed" THEN MalformedOutcome(t, r)
    ELSE Returned(ConnectionEnvelope(t, in, r.edges))

\* The execute of a tool whose source is not in the snapshot: per the
\* design it returns an envelope mapped from the response or raises.
ImportedToolOutcome(t, in, r) ==
    IF r.kind = "reject"
    THEN Threw("Failed to fetch " \o t, r.message, FALSE)
    ELSE Returned([result |-> r.data])

\* What execute of tool t returns or raises on response r.
ExecuteOutcome(t, in, vs, r) ==
    CASE t \in AnalyticsTools -> AnalyticsOutcome(t, in, vs.query, r)
      [] t \in SourceTools \ AnalyticsTools -> ConnectionOutcome(t, in, r)
      [] OTHER -> ImportedToolOutcome(t, in, r)

-----------------------------------------------------------------------------
(* JSON.stringify of the result of execute, and the reply of the handler   *)

\* The characters of a string value as JSON.stringify writes them: the
\* quote and the backslash are escaped.
RECURSIVE JSONEscape(_)
JSONEscape(s) ==
    IF Len(s) = 0 THEN ""
    ELSE IF Len(s) = 1
    THEN (IF s = "\"" THEN "\\\""
          ELSE IF s = "\\" THEN "\\\\"
          ELSE s)
    ELSE JSONEscape(SubSeq(s, 1, Len(s) \div 2))
            \o JSONEscape(SubSeq(s, Len(s) \div 2 + 1, Len(s)))

JSONString(s) == "\"" \o JSONEscape(s) \o "\""
JSONNumber(n) == ToString(n)
JSONBoolean(b) == IF b THEN "true" ELSE "false"
JSONNull == "null"
JSONNullableString(x) == IF x = None THEN JSONNull ELSE JSONString(x[1])

\* texts: the serialized elements, in order.
JSONArray(texts) == "[" \o Join(texts, ",") \o "]"

\* members: <<key, serialized value>> pairs in insertion order.
JSONObject(members) ==
    "{" \o Join([i \in 1..Len(members) |->
                    JSONString(members[i][1]) \o ":" \o members[i][2]], ",")
        \o "}"

JSONStrings(seq) == JSONArray([i \in 1..Len(seq) |-> JSONString(seq[i])])

\* ---- getLocations ----
JSONLocationsEnvelope(e) ==
    LET \* ---- getLocations ----
        JSONLocation(l) ==
            JSONObject(<<
              <<"id", JSONString(l.id)>>, <<"name", JSONString(l.name)>>,
              <<"isActive", JSONBoolean(l.isActive)>>,
              <<"fulfillsOnlineOrders", JSONBoolean(l.fulfillsOnlineOrders)>>,
              <<"hasActiveInventory", JSONBoolean(l.hasActiveInventory)>>,
              <<"shipsInventory", JSONBoolean(l.shipsInventory)>>,
              <<"address", JSONObject(<<
                  <<"address1", JSONNullableString(l.address.address1)>>,
                  <<"address2", JSONNullableString(l.address.address2)>>,
                  <<"city", JSONNullableString(l.address.city)>>,
                  <<"province", JSONNullableString(l.address.province)>>,
                  <<"provinceCode", JSONNullableString(l.address.provinceCode)>>,
                  <<"country", JSONNullableString(l.address.country)>>,
                  <<"countryCode", JSONNullableString(l.address.countryCode)>>,
                  <<"zip", JSONNullableString(l.address.zip)>>,
                  <<"phone", JSONNullableString(l.address.phone)>> >>)>> >>)
    IN  JSONObject(<<
          <<"locations",
            JSONArray([i \in 1..Len(e.locations) |-> JSONLocation(e.locations[i])])>>,
          <<"locationCount", JSONNumber(e.locationCount)>> >>)

\* ---- getInventoryLevels ----
JSONInventoryEnvelope(e) ==
    LET \* ---- getInventoryLevels ----
        JSONInventoryLevel(l) ==
            JSONObject(<<
              <<"locationId", JSONString(l.locationId)>>,
              <<"locationName", JSONString(l.locationName)>>,
              <<"available", JSONNumber(l.available)>>,
              <<"incoming", JSONNumber(l.incoming)>>,
              <<"committed", JSONNumber(l.committed)>>,
              <<"reserved", JSONNumber(l.reserved)>>,
              <<"onHand", JSONNumber(l.onHand)>> >>)
        JSONVariant(v) ==
            JSONObject(<<
              <<"id", JSONString(v.id)>>, <<"title", JSONString(v.title)>>,
              <<"displayName", JSONString(v.displayName)>>,
              <<"productId", JSONString(v.productId)>>,
              <<"productTitle", JSONString(v.productTitle)>> >>)
        JSONInventoryItem(it) ==
            JSONObject(<<
              <<"id", JSONString(it.id)>>, <<"sku", JSONNullableString(it.sku)>>,
              <<"tracked", JSONBoolean(it.tracked)>>,
              <<"variant", IF it.variant = None THEN JSONNull
                           ELSE JSONVariant(it.variant[1])>>,
              <<"inventoryLevels",
                JSONArray([i \in 1..Len(it.inventoryLevels) |->
                              JSONInventoryLevel(it.inventoryLevels[i])])>>,
              <<"totalAvailable", JSONNumber(it.totalAvailable)>>,
              <<"totalOnHand", JSONNumber(it.totalOnHand)>> >>)
    IN  JSONObject(<<
          <<"inventoryItems",
            JSONArray([i \in 1..Len(e.inventoryItems) |->
                          JSONInventoryItem(e.inventoryItems[i])])>>,
          <<"itemCount", JSONNumber(e.itemCount)>> >>)

\* ---- getCollections ----
JSONCollectionsEnvelope(e) ==
    LET \* ---- getCollections ----
        JSONRule(r) ==
            JSONObject(<<
              <<"column", JSONString(r.column)>>,
              <<"relation", JSONString(r.relation)>>,
              <<"condition", JSONString(r.condition)>> >>)
        JSONRuleSet(rs) ==
            JSONObject(<<
              <<"appliedDisjunctively", JSONBoolean(rs.appliedDisjunctively)>>,
              <<"rules", JSONArray([i \in 1..Len(rs.rules) |-> JSONRule(rs.rules[i])])>>
            >>)
        JSONCollection(c) ==
            JSONObject(<<
              <<"id", JSONString(c.id)>>, <<"title", JSONString(c.title)>>,
              <<"handle", JSONString(c.handle)>>,
              <<"description", JSONNullableString(c.description)>>,
              <<"productCount", JSONNumber(c.productCount)>>,
              <<"sortOrder", JSONString(c.sortOrder)>>,
              <<"templateSuffix", JSONNullableString(c.templateSuffix)>>,
              <<"updatedAt", JSONString(c.updatedAt)>>,
              <<"imageUrl", JSONNullableString(c.imageUrl)>>,
              <<"imageAltText", JSONNullableString(c.imageAltText)>>,
              <<"collectionType", JSONString(c.collectionType)>>,
              <<"rules", IF c.rules = None THEN JSONNull
                         ELSE JSONRuleSet(c.rules[1])>> >>)
    IN  JSONObject(<<
          <<"collections",
            JSONArray([i \in 1..Len(e.collections) |->
                          JSONCollection(e.collections[i])])>>,
          <<"collectionCount", JSONNumber(e.collectionCount)>> >>)

\* ---- searchOrders ----
JSONOrdersEnvelope(e) ==
    LET \* ---- searchOrders ----
        JSONMoney(m) ==
            JSONObject(<<
              <<"amount", JSONString(m.amount)>>,
              <<"currencyCode", JSONString(m.currencyCode)>> >>)
        JSONLineItem(li) ==
            JSONObject(<<
              <<"title", JSONString(li.title)>>,
              <<"quantity", JSONNumber(li.quantity)>>,
              <<"totalPrice", JSONMoney(li.totalPrice)>> >>)
        JSONCustomer(c) ==
            JSONObject(<<
              <<"id", JSONString(c.id)>>,
              <<"firstName", JSONNullableString(c.firstName)>>,
              <<"lastName", JSONNullableString(c.lastName)>>,
              <<"email", JSONNullableString(c.email)>> >>)
        JSONShippingAddress(a) ==
            JSONObject(<<
              <<"city", JSONNullableString(a.city)>>,
              <<"province", JSONNullableString(a.province)>>,
              <<"country", JSONNullableString(a.country)>> >>)
        JSONOrder(o) ==
            JSONObject(<<
              <<"id", JSONString(o.id)>>, <<"name", JSONString(o.name)>>,
              <<"createdAt", JSONString(o.createdAt)>>,
              <<"updatedAt", JSONString(o.updatedAt)>>,
              <<"processedAt", JSONNullableString(o.processedAt)>>,
              <<"financialStatus", JSONString(o.financialStatus)>>,
              <<"fulfillmentStatus", JSONString(o.fulfillmentStatus)>>,
              <<"confirmed", JSONBoolean(o.confirmed)>>,
              <<"closed", JSONBoolean(o.closed)>>,
              <<"cancelledAt", JSONNullableString(o.cancelledAt)>>,
              <<"totalPrice", JSONMoney(o.totalPrice)>>,
              <<"subtotalPrice", JSONMoney(o.subtotalPrice)>>,
              <<"totalTax", JSONMoney(o.totalTax)>>,
              <<"totalShipping", JSONMoney(o.totalShipping)>>,
              <<"customer", IF o.customer = None THEN JSONNull
                            ELSE JSONCustomer(o.customer[1])>>,
              <<"shippingAddress", IF o.shippingAddress = None THEN JSONNull
                                   ELSE JSONShippingAddress(o.shippingAddress[1])>>,
              <<"tags", JSONStrings(o.tags)>>,
              <<"note", JSONNullableString(o.note)>>,
              <<"lineItems",
                JSONArray([i \in 1..Len(o.lineItems) |-> JSONLineItem(o.lineItems[i])])>>
            >>)
    IN  JSONObject(<<
          <<"query", JSONString(e.query)>>, <<"sortKey", JSONString(e.sortKey)>>,
          <<"reverse", JSONBoolean(e.reverse)>>,
          <<"orders", JSONArray([i \in 1..Len(e.orders) |-> JSONOrder(e.orders[i])])>>,
          <<"orderCount", JSONNumber(e.orderCount)>> >>)

\* ---- the analytics tools ----
JSONColumns(columns) ==
    LET \* ---- the analytics tools ----
        JSONColumn(c) ==
            JSONObject(<<
              <<"name", JSONString(c.name)>>, <<"dataType", JSONString(c.dataType)>>,
              <<"displayName", JSONString(c.displayName)>> >>)
    IN  JSONArray([i \in 1..Len(columns) |-> JSONColumn(columns[i])])

\* rows as the API sent them: arrays of strings.
JSONRows(rows) == JSONArray([i \in 1..Len(rows) |-> JSONStrings(rows[i])])

JSONRowObjects(columns, os) ==
    LET \* A row object: its keys in the order the columns first set them.
        JSONRowObject(o) ==
            LET first == SelectSeq([i \in 1..Len(columns) |-> i],
                           LAMBDA i : \A j \in 1..(i - 1) :
                                         columns[j].name # columns[i].name)
            IN  JSONObject([k \in 1..Len(first) |->
                              <<columns[first[k]].name,
                                JSONString(o[columns[first[k]].name])>>])
    IN  JSONArray([i \in 1..Len(os) |-> JSONRowObject(os[i])])

JSONRunShopifyqlQueryEnvelope(e) ==
    JSONObject(<<
      <<"columns", JSONColumns(e.columns)>>, <<"rows", JSONRows(e.rows)>>,
      <<"rowCount", JSONNumber(e.rowCount)>> >>)

JSONSalesReportEnvelope(e) ==
    JSONObject(<<
      <<"query", JSONString(e.query)>>, <<"period", JSONString(e.period)>>,
      <<"groupBy", JSONString(e.groupBy)>>,
      <<"columns", JSONColumns(e.columns)>>, <<"rows", JSONRows(e.rows)>>,
      <<"rowCount", JSONNumber(e.rowCount)>> >>)

JSONProductPerformanceEnvelope(e) ==
    JSONObject(<<
      <<"query", JSONString(e.query)>>, <<"period", JSONString(e.period)>>,
      <<"sortBy", JSONString(e.sortBy)>>,
      <<"columns", JSONColumns(e.columns)>>,
      <<"products", JSONRowObjects(e.columns, e.products)>>,
      <<"productCount", JSONNumber(e.productCount)>> >>)

JSONCustomerAnalyticsEnvelope(e) ==
    IF "results" \in DOMAIN e
    THEN JSONObject(<<
           <<"query", JSONString(e.query)>>, <<"period", JSONString(e.period)>>,
           <<"reportType", JSONString(e.reportType)>>,
           <<"groupBy", JSONString(e.groupBy)>>,
           <<"columns", JSONColumns(e.columns)>>,
           <<"results", JSONRowObjects(e.columns, e.results)>>,
           <<"rowCount", JSONNumber(e.rowCount)>> >>)
    ELSE JSONObject(<<
           <<"query", JSONString(e.query)>>, <<"period", JSONString(e.period)>>,
           <<"reportType", JSONString(e.reportType)>>,
           <<"columns", JSONColumns(e.columns)>>, <<"rows", JSONRows(e.rows)>>,
           <<"rowCount", JSONNumber(e.rowCount)>> >>)

\* The result of a tool whose source is not in the snapshot.
JSONImportedToolEnvelope(e) ==
    JSONObject(<< <<"result", JSONString(e.result)>> >>)

\* JSON.stringify(result) for the result of tool t.
JSONStringify(t, e) ==
    CASE t = "get-locations" -> JSONLocationsEnvelope(e)
      [] t = "get-inventory-levels" -> JSONInventoryEnvelope(e)
      [] t = "get-collections" -> JSONCollectionsEnvelope(e)
      [] t = "search-orders" -> JSONOrdersEnvelope(e)
      [] t = "run-shopifyql-query" -> JSONRunShopifyqlQueryEnvelope(e)
      [] t = "get-sales-report" -> JSONSalesReportEnvelope(e)
      [] t = "get-product-performance" -> JSONProductPerformanceEnvelope(e)
      [] t = "get-customer-analytics" -> JSONCustomerAnalyticsEnvelope(e)
      [] OTHER -> JSONImportedToolEnvelope(e)

\* (the handler catches the error and answers with its message as text)
HandlerReply_ErrorAsText(t, o) ==
    IF o.kind = "returned"
    THEN Some([content |->
                 <<[type |-> "text", text |-> JSONStringify(t, o.envelope)]>>])
    ELSE Some([content |-> <<[type |-> "text", text |-> o.message]>>])

\* async (args) => { const result = await tool.execute(args);
\*   return { content: [{ type: "text", text: JSON.stringify(result) }] }; }
\* When execute raises, the await raises and nothing is returned.
HandlerReply(t, o) ==
    IF o.kind = "returned"
    THEN Some([content |->
                 <<[type |-> "text", text |-> JSONStringify(t, o.envelope)]>>])
    ELSE None

-----------------------------------------------------------------------------
\* Requests execute issues after the first one settled: the catch block
\* rethrows and the success path returns; nothing is retried or paged.
RequestsAfterSettled_RetryOnReject(t, r) == IF r.kind = "reject" THEN 1 ELSE 0

RequestsAfterSettled(t, r) == 0

-----------------------------------------------------------------------------
(* The helpers applied to bounded inputs *)

SupportedPeriods ==
    {"today", "yesterday", "last_7_days", "last_30_days", "last_90_days",
     "last_month", "this_month", "this_year", "last_year"}

\* Strings a caller can pass as period: the supported tokens and others.
PeriodStrings ==
    SupportedPeriods \cup
    {"", "last_week", "LAST_7_DAYS", "constructor", "toString", "__proto__"}

GroupByTokens ==
    {"day", "week", "month", "product", "product_type", "channel", "region",
     "customer_type"}

GroupByStrings == GroupByTokens \cup {"", "hour", "valueOf"}

\* An options object of buildShopifyQLQuery; where, groupBy, orderBy and
\* limit are given as optional values and are keys only when present.
MakeOptions(from, show, where, groupBy, period, orderBy, limit) ==
    [k \in {"from", "show", "period"}
           \cup (IF where = None THEN {} ELSE {"where"})
           \cup (IF groupBy = None THEN {} ELSE {"groupBy"})
           \cup (IF orderBy = None THEN {} ELSE {"orderBy"})
           \cup (IF limit = None THEN {} ELSE {"limit"}) |->
        CASE k = "from" -> from
          [] k = "show" -> show
          [] k = "period" -> period
          [] k = "where" -> where[1]
          [] k = "groupBy" -> groupBy[1]
          [] k = "orderBy" -> orderBy[1]
          [] k = "limit" -> limit[1]]

QLOptions ==
    { MakeOptions(f, s, w, g, p, o, l) :
        f \in {"sales", "products"},
        s \in {<<>>, <<"total_sales">>, <<"total_sales", "orders">>},
        w \in {None, Some(""), Some("product_type = 'Shoes'")},
        g \in {None, Some(""), Some("day"), Some("product"), Some("hour")},
        p \in {"last_7_days", "this_month", "last_week", "toString"},
        o \in {None, Some(""), Some("ORDER BY orders DESC")},
        l \in {None, Some(0), Some(50)} }

QLFunctions ==
    {"periodToShopifyQL", "groupByToShopifyQL", "groupByToOrderBy",
     "buildShopifyQLQuery"}

QLArguments(fn) ==
    CASE fn = "periodToShopifyQL" -> PeriodStrings
      [] fn = "groupByToShopifyQL" -> GroupByStrings
      [] fn = "groupByToOrderBy" -> GroupByStrings
      [] fn = "buildShopifyQLQuery" -> QLOptions

-----------------------------------------------------------------------------
(* Bounded inputs: the arguments a caller passes and the responses the     *)
(* remote API gives.                                                       *)

MaxEdges == 2
MaxRows == 2
MaxParseErrors == 2
MaxLevels == 2
MaxQuantity == 2

\* All sequences over S of length at most n.
SeqsUpTo(S, n) == UNION {[1..m -> S] : m \in 0..n}

\* A limit argument: absent, around the bounds 1..max, and far outside.
LimitSamples(max) ==
    {None, Some(0), Some(1), Some(max), Some(max + 1), Some(9999)}

PeriodSamples ==
    {None, Some("last_week")} \cup {Some(p) : p \in SupportedPeriods}

ArgsGetSalesReport ==
    { Obj(<< <<"period", p>>, <<"groupBy", g>>, <<"metrics", m>>,
             <<"limit", l>> >>) :
        p \in PeriodSamples,
        g \in {None, Some("day"), Some("week"), Some("month"),
               Some("product"), Some("channel"), Some("region"),
               Some("product_type")},
        m \in {None, Some(<<>>), Some(<<"net_sales">>), Some(<<"revenue">>)},
        l \in LimitSamples(500) }

ArgsGetProductPerformance ==
    { Obj(<< <<"period", p>>, <<"sortBy", s>>, <<"limit", l>>,
             <<"productType", y>> >>) :
        p \in PeriodSamples,
        s \in {None, Some("orders"), Some("price")},
        l \in LimitSamples(100),
        y \in {None, Some(""), Some("Shoes")} }

ArgsGetCustomerAnalytics ==
    { Obj(<< <<"period", p>>, <<"reportType", r>>, <<"groupBy", g>> >>) :
        p \in PeriodSamples,
        r \in {None, Some("acquisition"), Some("retention"),
               Some("spending"), Some("overview"), Some("churn")},
        g \in {None, Some("day"), Some("week"), Some("month"),
               Some("product")} }

ArgsOf(t) ==
    CASE t = "get-products" ->
            { Obj(<< <<"searchTitle", s>>, <<"limit", l>> >>) :
                s \in {None, Some("shirt")}, l \in LimitSamples(50) }
      [] t = "get-product-by-id" ->
            { Obj(<< <<"productId", i>> >>) :
                i \in {None, Some(""), Some("gid://shopify/Product/1")} }
      [] t = "get-customers" ->
            { Obj(<< <<"searchQuery", s>>, <<"limit", l>> >>) :
                s \in {None, Some("ann")}, l \in LimitSamples(50) }
      [] t = "get-orders" ->
            { Obj(<< <<"status", s>>, <<"limit", l>> >>) :
                s \in {None, Some("open"), Some("paid")},
                l \in LimitSamples(50) }
      [] t = "get-order-by-id" ->
            { Obj(<< <<"orderId", i>> >>) :
                i \in {None, Some(""), Some("gid://shopify/Order/1")} }
      [] t = "update-order" ->
            { Obj(<< <<"id", i>>, <<"email", e>>, <<"note", n>> >>) :
                i \in {None, Some(""), Some("gid://shopify/Order/1")},
                e \in {None, Some("a@b.co"), Some("nobody")},
                n \in {None, Some("gift")} }
      [] t = "get-customer-orders" ->
            { Obj(<< <<"customerId", c>>, <<"limit", l>> >>) :
                c \in {None, Some("123"), Some("gid://shopify/Customer/123")},
                l \in LimitSamples(50) }
      [] t = "update-customer" ->
            { Obj(<< <<"id", i>>, <<"email", e>>, <<"taxExempt", x>> >>) :
                i \in {None, Some("123"), Some("12a")},
                e \in {None, Some("a@b.co"), Some("nobody")},
                x \in {None, Some(TRUE)} }
      [] t = "create-product" ->
            { Obj(<< <<"title", i>>, <<"status", s>> >>) :
                i \in {None, Some(""), Some("Shirt")},
                s \in {None, Some("ACTIVE"), Some("HIDDEN")} }
      [] t = "run-shopifyql-query" ->
            { Obj(<< <<"query", q>> >>) :
                q \in {None, Some(""),
                       Some("FROM sales SHOW total_sales SINCE -7d"),
                       Some("FROM sales SHOWW total_sales")} }
      [] t = "get-sales-report" -> ArgsGetSalesReport
      [] t = "get-product-performance" -> ArgsGetProductPerformance
      [] t = "get-customer-analytics" -> ArgsGetCustomerAnalytics
      [] t = "get-locations" ->
            { Obj(<< <<"limit", l>>, <<"includeInactive", b>> >>) :
                l \in LimitSamples(50), b \in {None, Some(TRUE)} }
      [] t = "get-inventory-levels" ->
            { Obj(<< <<"limit", l>>, <<"sku", s>>, <<"productId", i>> >>) :
                l \in LimitSamples(50),
                s \in {None, Some(""), Some("ABC-1")},
                i \in {None, Some(""), Some("123"),
                       Some("gid://shopify/Product/123")} }
      [] t = "get-collections" ->
            { Obj(<< <<"limit", l>>, <<"searchQuery", s>>,
                     <<"collectionType", c>> >>) :
                l \in LimitSamples(50),
                s \in {None, Some(""), Some("sale")},
                c \in {None, Some("smart"), Some("manual"), Some("all"),
                       Some("custom")} }
      [] t = "search-orders" ->
            { Obj(<< <<"query", q>>, <<"limit", l>>, <<"sortKey", k>>,
                     <<"reverse", r>> >>) :
                q \in {None, Some(""), Some("tag:vip")},
                l \in LimitSamples(50),
                k \in {None, Some("TOTAL_PRICE"), Some("ID")},
                r \in {None, Some(FALSE)} }

\* ---- response nodes ----
LocationNodes ==
    { [id |-> "gid://shopify/Location/1", name |-> "Warehouse",
       isActive |-> TRUE, fulfillsOnlineOrders |-> TRUE,
       hasActiveInventory |-> TRUE, shipsInventory |-> TRUE,
       address |-> [address1 |-> Some("1 Main St"), address2 |-> None,
                    city |-> Some("Ottawa"), province |-> Some("Ontario"),
                    provinceCode |-> Some("ON"), country |-> Some("Canada"),
                    countryCode |-> Some("CA"), zip |-> Some("K1A 0B1"),
                    phone |-> None]],
      [id |-> "gid://shopify/Location/2", name |-> "Old shop",
       isActive |-> FALSE, fulfillsOnlineOrders |-> FALSE,
       hasActiveInventory |-> FALSE, shipsInventory |-> FALSE,
       address |-> [address1 |-> None, address2 |-> None, city |-> None,
                    province |-> None, provinceCode |-> None,
                    country |-> None, countryCode |-> None, zip |-> None,
                    phone |-> None]] }

CollectionNode(n, image, ruleSet) ==
    [id |-> "gid://shopify/Collection/" \o n, title |-> "Collection " \o n,
     handle |-> "collection-" \o n, description |-> None,
     descriptionHtml |-> None, productsCount |-> [count |-> 3],
     sortOrder |-> "BEST_SELLING", templateSuffix |-> None,
     updatedAt |-> "2025-01-01T00:00:00Z", image |-> image,
     ruleSet |-> ruleSet]

CollectionNodes ==
    { CollectionNode("1", None, None),
      CollectionNode("2", Some([url |-> "https://cdn/x.png", altText |-> None]),
                     Some([appliedDisjunctively |-> FALSE, rules |-> <<>>])),
      CollectionNode("3", Some([url |-> "", altText |-> Some("alt")]),
                     Some([appliedDisjunctively |-> TRUE,
                           rules |-> <<[column |-> "TAG",
                                        relation |-> "EQUALS",
                                        condition |-> "sale"]>>])) }

Money(amount) == [shopMoney |-> [amount |-> amount, currencyCode |-> "CAD"]]

OrderNodes ==
    { [id |-> "gid://shopify/Order/1", name |-> "#1001",
       createdAt |-> "2025-01-01T00:00:00Z",
       updatedAt |-> "2025-01-02T00:00:00Z", processedAt |-> None,
       displayFinancialStatus |-> "PAID",
       displayFulfillmentStatus |-> "UNFULFILLED", confirmed |-> TRUE,
       closed |-> FALSE, cancelledAt |-> None,
       totalPriceSet |-> Money("12.00"), subtotalPriceSet |-> Money("10.00"),
       totalTaxSet |-> Money("1.00"), totalShippingPriceSet |-> Money("1.00"),
       customer |-> None, shippingAddress |-> None, tags |-> <<>>,
       note |-> None, lineItems |-> <<>>],
      [id |-> "gid://shopify/Order/2", name |-> "#1002",
       createdAt |-> "2025-02-01T00:00:00Z",
       updatedAt |-> "2025-02-02T00:00:00Z",
       processedAt |-> Some("2025-02-01T00:00:01Z"),
       displayFinancialStatus |-> "REFUNDED",
       displayFulfillmentStatus |-> "FULFILLED", confirmed |-> TRUE,
       closed |-> TRUE, cancelledAt |-> Some("2025-02-03T00:00:00Z"),
       totalPriceSet |-> Money("30.00"), subtotalPriceSet |-> Money("25.00"),
       totalTaxSet |-> Money("3.00"), totalShippingPriceSet |-> Money("2.00"),
       customer |-> Some([id |-> "gid://shopify/Customer/7",
                          firstName |-> Some("Ann"), lastName |-> None,
                          email |-> Some("ann@example.com")]),
       shippingAddress |-> Some([city |-> Some("Ottawa"), province |-> None,
                                 country |-> Some("Canada")]),
       tags |-> <<"vip">>, note |-> Some("gift"),
       lineItems |-> <<[title |-> "Shirt", quantity |-> 2,
                        originalTotalSet |-> Money("25.00")]>>] }

QuantityNames == <<"available", "incoming", "committed", "reserved", "on_hand">>

\* The quantities list of one inventory level: an entry for each name of
\* present, in the order requested; v = 0 gives quantities of 0, and any
\* other v gives each name a quantity of its own.
QuantitiesList(present, v) ==
    LET names == SelectSeq(QuantityNames, LAMBDA n : n \in present)
        at(n) == CHOOSE i \in 1..Len(QuantityNames) : QuantityNames[i] = n
    IN  [i \in 1..Len(names) |->
            [name |-> names[i],
             quantity |-> IF v = 0 THEN 0 ELSE v + at(names[i]) - 1]]

\* Which entries a level's quantities list may hold: none, one, all but
\* one, or all of the requested names.
QuantitySubsets ==
    {S \in SUBSET {QuantityNames[i] : i \in 1..Len(QuantityNames)} :
        Cardinality(S) \in {0, 1, Len(QuantityNames) - 1, Len(QuantityNames)}}

InventoryLevelNodes ==
    { [id |-> "gid://shopify/InventoryLevel/1",
       quantities |-> QuantitiesList(S, v),
       location |-> [id |-> "gid://shopify/Location/1", name |-> "Warehouse"]] :
        S \in QuantitySubsets, v \in 0..MaxQuantity }

InventoryItemNode(levels, variant) ==
    [id |-> "gid://shopify/InventoryItem/1", sku |-> Some("ABC-1"),
     tracked |-> TRUE, inventoryLevels |-> levels, variant |-> variant]

\* The inventory items the mapping is applied to on its own.
InventoryItemNodes ==
    { InventoryItemNode(levels, None) :
        levels \in SeqsUpTo(InventoryLevelNodes, MaxLevels) }

\* The inventory items of the responses of a whole invocation.
InventoryItemSamples ==
    { InventoryItemNode(<<>>, None),
      InventoryItemNode(
        [i \in 1..MaxLevels |->
            [id |-> "gid://shopify/InventoryLevel/" \o ToString(i),
             quantities |-> QuantitiesList({"available", "incoming",
                                            "committed", "on_hand"}, i),
             location |-> [id |-> "gid://shopify/Location/" \o ToString(i),
                           name |-> "Warehouse"]]],
        Some([id |-> "gid://shopify/ProductVariant/1", title |-> "M",
              displayName |-> "Shirt - M",
              product |-> [id |-> "gid://shopify/Product/123",
                           title |-> "Shirt"]])) }

NodeSamples(t) ==
    CASE t = "get-locations" -> LocationNodes
      [] t = "get-inventory-levels" -> InventoryItemSamples
      [] t = "get-collections" -> CollectionNodes
      [] t = "search-orders" -> OrderNodes

TableColumns ==
    <<[name |-> "day", dataType |-> "DAY", displayName |-> "Day"],
      [name |-> "total_sales", dataType |-> "MONEY",
       displayName |-> "Total sales"]>>

TableDataSamples ==
    {None} \cup
    { Some([columns |-> TableColumns,
            rows |-> [i \in 1..n |->
                        <<"2025-01-0" \o ToString(i), ToString(100 * i)>>]]) :
        n \in 0..MaxRows }

\* parseErrors: null, or a list of up to MaxParseErrors messages.
ParseErrorSamples ==
    {None} \cup
    { Some([i \in 1..n |-> "parse error " \o ToString(i)]) :
        n \in 0..MaxParseErrors }

RejectResponses ==
    { [kind |-> "reject", message |-> m] :
        m \in {"fetch failed", "GraphQL Error (Code: 429)"} }

\* The fields the code reads from an object that the response may hold as
\* null: the connection itself (edges), a node's nested object, or
\* data.shopifyqlQuery (parseErrors).
MissingFields(t) ==
    CASE t \in AnalyticsTools -> {"parseErrors"}
      [] t = "get-locations" -> {"edges", "address1"}
      [] t = "get-inventory-levels" -> {"edges", "forEach"}
      [] t = "get-collections" -> {"edges", "count"}
      [] t = "search-orders" -> {"edges", "shopMoney"}
      [] OTHER -> {}

MalformedResponses(t) ==
    { [kind |-> "malformed", missing |-> f] : f \in MissingFields(t) }

\* What the remote API may answer to the request of tool t.
Responses(t) ==
    RejectResponses \cup MalformedResponses(t) \cup
    (CASE t \in AnalyticsTools ->
            { [kind |-> "data", tableData |-> td, parseErrors |-> pe] :
                td \in TableDataSamples, pe \in ParseErrorSamples }
       [] t \in SourceTools \ AnalyticsTools ->
            { [kind |-> "data", edges |-> e] :
                e \in SeqsUpTo(NodeSamples(t), MaxEdges) }
       [] OTHER -> { [kind |-> "data", data |-> "ok"] })

-----------------------------------------------------------------------------
(* Process startup (index.ts, top to bottom): resolve the configuration,   *)
(* validate it, construct the client, initialize the tools, create the     *)
(* server, register the tools, connect; then the server calls execute.     *)

\* !value for a configuration value: undefined or the empty string.
Falsy(x) == x = None \/ x[1] = ""

\* argv.<flag> || process.env.<NAME>
Resolve(flag, environment) == IF ~Falsy(flag) THEN flag ELSE environment

\* process.env.<NAME> = value: an undefined value is stored as a string.
StoreInEnv(value) == IF value = None THEN Some("undefined") ELSE value

\* new GraphQLClient(`https://${domain}/admin/api/2025-10/graphql.json`,
\*                   { headers: { ... } })
GraphQLClient(d, token) ==
    [url |-> "https://" \o d \o "/admin/api/2025-10/graphql.json",
     headers |-> ("X-Shopify-Access-Token" :> token)
                   @@ ("Content-Type" :> "application/json")]

\* if (!SHOPIFY_ACCESS_TOKEN) { ... process.exit(1) }
TokenCheckExits(token) == Falsy(token)

\* (the domain is never checked)
DomainCheckExits_Never(d) == FALSE

\* if (!MYSHOPIFY_DOMAIN) { ... process.exit(1) }
DomainCheckExits(d) == Falsy(d)

TokenMissingMessage ==
    <<"Error: SHOPIFY_ACCESS_TOKEN is required.",
      "Please provide it via command line argument or .env file.",
      "  Command line: --accessToken=your_token">>

DomainMissingMessage ==
    <<"Error: MYSHOPIFY_DOMAIN is required.",
      "Please provide it via command line argument or .env file.",
      "  Command line: --domain=your-store.myshopify.com">>

\* (search-orders is registered but never initialized)
InitializeOrder_WithoutSearchOrders ==
    <<"get-products", "get-product-by-id", "get-customers", "get-orders",
      "get-order-by-id", "update-order", "get-customer-orders",
      "update-customer", "create-product", "run-shopifyql-query",
      "get-sales-report", "get-product-performance",
      "get-customer-analytics", "get-locations", "get-inventory-levels",
      "get-collections">>

\* The <tool>.initialize(shopifyClient) calls, in program order, by the
\* registered name of the tool.
InitializeOrder ==
    <<"get-products", "get-product-by-id", "get-customers", "get-orders",
      "get-order-by-id", "update-order", "get-customer-orders",
      "update-customer", "create-product", "run-shopifyql-query",
      "get-sales-report", "get-product-performance",
      "get-customer-analytics", "get-locations", "get-inventory-levels",
      "get-collections", "search-orders">>

\* The server.tool(...) calls, in program order.
RegistrationOrder ==
    <<"get-products", "get-product-by-id", "get-customers", "get-orders",
      "get-order-by-id", "update-order", "get-customer-orders",
      "update-customer", "create-product", "run-shopifyql-query",
      "get-sales-report", "get-product-performance",
      "get-customer-analytics", "get-locations", "get-inventory-levels",
      "get-collections", "search-orders">>

\* (the search-orders handler calls the execute of getOrders)
HandlerCalls_SearchOrdersCallsGetOrders(name) ==
    CASE name = "get-products" -> "getProducts"
      [] name = "get-product-by-id" -> "getProductById"
      [] name = "get-customers" -> "getCustomers"
      [] name = "get-orders" -> "getOrders"
      [] name = "get-order-by-id" -> "getOrderById"
      [] name = "update-order" -> "updateOrder"
      [] name = "get-customer-orders" -> "getCustomerOrders"
      [] name = "update-customer" -> "updateCustomer"
      [] name = "create-product" -> "createProduct"
      [] name = "run-shopifyql-query" -> "runShopifyqlQuery"
      [] name = "get-sales-report" -> "getSalesReport"
      [] name = "get-product-performance" -> "getProductPerformance"
      [] name = "get-customer-analytics" -> "getCustomerAnalytics"
      [] name = "get-locations" -> "getLocations"
      [] name = "get-inventory-levels" -> "getInventoryLevels"
      [] name = "get-collections" -> "getCollections"
      [] name = "search-orders" -> "getOrders"

\* The imported binding whose execute the handler registered under name
\* calls: const result = await <binding>.execute(args).
HandlerCalls(name) ==
    CASE name = "get-products" -> "getProducts"
      [] name = "get-product-by-id" -> "getProductById"
      [] name = "get-customers" -> "getCustomers"
      [] name = "get-orders" -> "getOrders"
      [] name = "get-order-by-id" -> "getOrderById"
      [] name = "update-order" -> "updateOrder"
      [] name = "get-customer-orders" -> "getCustomerOrders"
      [] name = "update-customer" -> "updateCustomer"
      [] name = "create-product" -> "createProduct"
      [] name = "run-shopifyql-query" -> "runShopifyqlQuery"
      [] name = "get-sales-report" -> "getSalesReport"
      [] name = "get-product-performance" -> "getProductPerformance"
      [] name = "get-customer-analytics" -> "getCustomerAnalytics"
      [] name = "get-locations" -> "getLocations"
      [] name = "get-inventory-levels" -> "getInventoryLevels"
      [] name = "get-collections" -> "getCollections"
      [] name = "search-orders" -> "searchOrders"

\* The name field of a tool whose source is not in the snapshot: the
\* catalog entry of the operation the binding is named after.
ImportedToolName(binding) ==
    CASE binding = "getProducts" -> "get-products"
      [] binding = "getProductById" -> "get-product-by-id"
      [] binding = "getCustomers" -> "get-customers"
      [] binding = "getOrders" -> "get-orders"
      [] binding = "getOrderById" -> "get-order-by-id"
      [] binding = "updateOrder" -> "update-order"
      [] binding = "getCustomerOrders" -> "get-customer-orders"
      [] binding = "updateCustomer" -> "update-customer"
      [] binding = "createProduct" -> "create-product"

\* The name field of the tool object a binding imports.
ToolName(binding) ==
    CASE binding = "runShopifyqlQuery" -> "run-shopifyql-query"
      [] binding = "getSalesReport" -> "get-sales-report"
      [] binding = "getProductPerformance" -> "get-product-performance"
      [] binding = "getCustomerAnalytics" -> "get-customer-analytics"
      [] binding = "getLocations" -> "get-locations"
      [] binding = "getInventoryLevels" -> "get-inventory-levels"
      [] binding = "getCollections" -> "get-collections"
      [] binding = "searchOrders" -> "search-orders"
      [] OTHER -> ImportedToolName(binding)

\* (each tool builds a client of its own against the unversioned endpoint)
ToolInitialize_OwnClient(client) ==
    Some([client EXCEPT !.url = "https://shop/admin/api/graphql.json"])

\* initialize(client) { shopifyClient = client; }
ToolInitialize(client) == Some(client)

\* initialize of a tool whose source is not in the snapshot: it keeps the
\* handle it is given.
ImportedToolInitialize(client) == Some(client)

\* The configuration values a process may be started with.
FlagSamples == {None, Some("flag-value")}
EnvSamples == {None, Some(""), Some("env-value")}

BootStart ==
    /\ pc = "resolve"
    /\ argv \in [accessToken : FlagSamples, domain : FlagSamples]
    /\ env \in [accessToken : EnvSamples, domain : EnvSamples]
    /\ processEnv = env
    /\ accessToken = None
    /\ domain = None
    /\ exitCode = None
    /\ stderr = <<>>
    /\ shopifyClient = None
    /\ toolClient = [t \in ToolNames |-> None]
    /\ initializeCalls = [t \in ToolNames |-> 0]
    /\ registered = <<>>
    /\ connected = FALSE
    /\ executing = None
    /\ requestedWith = None
    /\ invokedAs = None

\* A process whose startup completed, with both values given as flags.
BootServed ==
    /\ pc = "serving"
    /\ argv = [accessToken |-> Some("flag-value"), domain |-> Some("flag-value")]
    /\ env = [accessToken |-> None, domain |-> None]
    /\ processEnv = [accessToken |-> Some("flag-value"),
                     domain |-> Some("flag-value")]
    /\ accessToken = Some("flag-value")
    /\ domain = Some("flag-value")
    /\ exitCode = None
    /\ stderr = <<>>
    /\ shopifyClient = Some(GraphQLClient("flag-value", "flag-value"))
    /\ toolClient = [t \in ToolNames |->
                        Some(GraphQLClient("flag-value", "flag-value"))]
    /\ initializeCalls = [t \in ToolNames |-> 1]
    /\ registered = RegistrationOrder
    /\ connected = TRUE
    /\ executing = None
    /\ requestedWith = None
    /\ invokedAs = None

CallsIdle == calls = <<>>

-----------------------------------------------------------------------------
(* One invocation through the registry: server.tool validates the          *)
(* arguments against the registered schema and only then calls the         *)
(* handler, which awaits the tool's execute.                               *)

ServerIdle ==
    /\ phase = "idle"
    /\ tool = ""
    /\ args = <<>>
    /\ input = None
    /\ variables = None
    /\ requests = 0
    /\ response = None
    /\ mapped = FALSE
    /\ outcome = None
    /\ errorLog = <<>>
    /\ reply = None

QLIdle ==
    /\ qlFn = ""
    /\ qlArg = ""
    /\ qlResult = None

InvIdle ==
    /\ invNode = <<>>
    /\ invItem = None

Init ==
    /\ ServerIdle
    /\ QLIdle
    /\ InvIdle
    /\ BootServed
    /\ step = 0
    /\ CallsIdle

\* The arguments fail the registered schema: the handler is not called.
InvokeRejected ==
    /\ phase = "idle"
    /\ \E t \in ToolNames : \E a \in ArgsOf(t) :
        /\ ~ZParse(RegisteredSchema(t), a).success
        /\ tool' = t
        /\ args' = a
        /\ phase' = "rejected"
        /\ outcome' = Some([kind |-> "invalid", envelope |-> <<>>,
                            message |-> "Invalid arguments", mapped |-> FALSE,
                            issues |-> ZParse(RegisteredSchema(t), a).issues])
    /\ UNCHANGED <<input, variables, requests, response, mapped, errorLog,
                   reply, qlVars, invVars, bootVars, callVars>>

\* The arguments pass: the handler calls execute with the parsed input,
\* which builds its request and awaits shopifyClient.request.
InvokeAccepted ==
    /\ phase = "idle"
    /\ \E t \in ToolNames : \E a \in ArgsOf(t) :
        /\ ZParse(RegisteredSchema(t), a).success
        /\ tool' = t
        /\ args' = a
        /\ input' = Some(ZParse(RegisteredSchema(t), a).data)
        /\ variables' =
             Some(RequestVariables(t, ZParse(RegisteredSchema(t), a).data))
        /\ requests' = requests + 1
        /\ phase' = "awaiting"
    /\ UNCHANGED <<response, mapped, outcome, errorLog, reply, qlVars,
                   invVars, bootVars, callVars>>

\* The request settles and execute runs to its return or its throw.
Settle ==
    /\ phase = "awaiting"
    /\ \E r \in Responses(tool) :
        LET o == ExecuteOutcome(tool, input[1], variables[1], r)
        IN  /\ response' = Some(r)
            /\ outcome' = Some(o)
            /\ mapped' = o.mapped
            /\ errorLog' = errorLog \o o.logged
            /\ reply' = HandlerReply(tool, o)
            /\ phase' = o.kind
            /\ requests' = requests + RequestsAfterSettled(tool, r)
    /\ UNCHANGED <<tool, args, input, variables, qlVars, invVars, bootVars,
                   callVars>>

\* The reply is sent; the server takes the next invocation.
NextInvocation ==
    /\ phase \in {"rejected", "returned", "threw"}
    /\ phase' = "idle"
    /\ tool' = ""
    /\ args' = <<>>
    /\ input' = None
    /\ variables' = None
    /\ requests' = 0
    /\ response' = None
    /\ mapped' = FALSE
    /\ outcome' = None
    /\ errorLog' = <<>>
    /\ reply' = None
    /\ UNCHANGED <<qlVars, invVars, bootVars, callVars>>

Next ==
    \/ InvokeRejected
    \/ InvokeAccepted
    \/ Settle
    \/ NextInvocation

Spec == Init /\ [][Next]_vars

-----------------------------------------------------------------------------
(* The steps of process startup *)

\* `${value}` in a template literal.
ConfigText(x) == IF x = None THEN "undefined" ELSE x[1]

\* const SHOPIFY_ACCESS_TOKEN = argv.accessToken || process.env...; the
\* resolved values are stored back in process.env.
ResolveConfiguration ==
    /\ pc = "resolve"
    /\ accessToken' = Resolve(argv.accessToken, processEnv.accessToken)
    /\ domain' = Resolve(argv.domain, processEnv.domain)
    /\ processEnv' =
         [accessToken |->
              StoreInEnv(Resolve(argv.accessToken, processEnv.accessToken)),
          domain |-> StoreInEnv(Resolve(argv.domain, processEnv.domain))]
    /\ pc' = "checkToken"
    /\ UNCHANGED <<argv, env, exitCode, stderr, shopifyClient, toolClient,
                   initializeCalls, registered, connected, executing,
                   requestedWith, invokedAs, step, serverVars, qlVars, invVars, callVars>>

CheckAccessToken ==
    /\ pc = "checkToken"
    /\ IF TokenCheckExits(accessToken)
       THEN /\ stderr' = stderr \o TokenMissingMessage
            /\ exitCode' = Some(1)
            /\ pc' = "exited"
       ELSE /\ pc' = "checkDomain"
            /\ UNCHANGED <<stderr, exitCode>>
    /\ UNCHANGED <<argv, env, processEnv, accessToken, domain, shopifyClient,
                   toolClient, initializeCalls, registered, connected,
                   executing, requestedWith, invokedAs, step, serverVars, qlVars,
                   invVars, callVars>>

CheckDomain ==
    /\ pc = "checkDomain"
    /\ IF DomainCheckExits(domain)
       THEN /\ stderr' = stderr \o DomainMissingMessage
            /\ exitCode' = Some(1)
            /\ pc' = "exited"
       ELSE /\ pc' = "createClient"
            /\ UNCHANGED <<stderr, exitCode>>
    /\ UNCHANGED <<argv, env, processEnv, accessToken, domain, shopifyClient,
                   toolClient, initializeCalls, registered, connected,
                   executing, requestedWith, invokedAs, step, serverVars, qlVars,
                   invVars, callVars>>

CreateClient ==
    /\ pc = "createClient"
    /\ shopifyClient' =
         Some(GraphQLClient(ConfigText(domain), ConfigText(accessToken)))
    /\ pc' = "initialize"
    /\ step' = 1
    /\ UNCHANGED <<argv, env, processEnv, accessToken, domain, exitCode,
                   stderr, toolClient, initializeCalls, registered, connected,
                   executing, requestedWith, invokedAs, serverVars, qlVars, invVars,
                   callVars>>

\* <tool>.initialize(shopifyClient): the next call of InitializeOrder.
InitializeTool ==
    /\ pc = "initialize"
    /\ step <= Len(InitializeOrder)
    /\ LET t == InitializeOrder[step]
       IN  /\ initializeCalls' = [initializeCalls EXCEPT ![t] = @ + 1]
           /\ toolClient' =
                [toolClient EXCEPT ![t] =
                    IF t \in SourceTools
                    THEN ToolInitialize(shopifyClient[1])
                    ELSE ImportedToolInitialize(shopifyClient[1])]
    /\ step' = step + 1
    /\ UNCHANGED <<pc, argv, env, processEnv, accessToken, domain, exitCode,
                   stderr, shopifyClient, registered, connected, executing,
                   requestedWith, invokedAs, serverVars, qlVars, invVars, callVars>>

\* const server = new McpServer({ ... })
CreateServer ==
    /\ pc = "initialize"
    /\ step > Len(InitializeOrder)
    /\ pc' = "register"
    /\ step' = 1
    /\ UNCHANGED <<argv, env, processEnv, accessToken, domain, exitCode,
                   stderr, shopifyClient, toolClient, initializeCalls,
                   registered, connected, executing, requestedWith, invokedAs,
                   serverVars, qlVars, invVars, callVars>>

\* server.tool(name, schema, handler): the next call of RegistrationOrder.
RegisterTool ==
    /\ pc = "register"
    /\ step <= Len(RegistrationOrder)
    /\ registered' = Append(registered, RegistrationOrder[step])
    /\ step' = step + 1
    /\ UNCHANGED <<pc, argv, env, processEnv, accessToken, domain, exitCode,
                   stderr, shopifyClient, toolClient, initializeCalls,
                   connected, executing, requestedWith, invokedAs, serverVars, qlVars,
                   invVars, callVars>>

\* server.connect(transport) resolves.
Connect ==
    /\ pc = "register"
    /\ step > Len(RegistrationOrder)
    /\ connected' = TRUE
    /\ pc' = "serving"
    /\ step' = 0
    /\ UNCHANGED <<argv, env, processEnv, accessToken, domain, exitCode,
                   stderr, shopifyClient, toolClient, initializeCalls,
                   registered, executing, requestedWith, invokedAs, serverVars, qlVars,
                   invVars, callVars>>

\* server.connect(transport) rejects: the catch logs and nothing is served.
ConnectFails ==
    /\ pc = "register"
    /\ step > Len(RegistrationOrder)
    /\ stderr' = stderr \o <<"Failed to start Shopify MCP Server:">>
    /\ pc' = "failed"
    /\ step' = 0
    /\ UNCHANGED <<argv, env, processEnv, accessToken, domain, exitCode,
                   shopifyClient, toolClient, initializeCalls, registered,
                   connected, executing, requestedWith, invokedAs, serverVars, qlVars,
                   invVars, callVars>>

\* The connected server calls the handler of a registered tool; its execute
\* issues the request through the client the tool's module holds.
ExecuteTool ==
    /\ pc = "serving"
    /\ connected
    /\ executing = None
    /\ \E i \in 1..Len(registered) :
        /\ invokedAs' = Some(registered[i])
        /\ executing' = Some(ToolName(HandlerCalls(registered[i])))
        /\ requestedWith' = toolClient[ToolName(HandlerCalls(registered[i]))]
    /\ UNCHANGED <<pc, argv, env, processEnv, accessToken, domain, exitCode,
                   stderr, shopifyClient, toolClient, initializeCalls,
                   registered, connected, step, serverVars, qlVars, invVars,
                   callVars>>

\* execute returns or raises; no execute assigns its module's client.
ExecuteEnds ==
    /\ pc = "serving"
    /\ executing # None
    /\ executing' = None
    /\ requestedWith' = None
    /\ invokedAs' = None
    /\ UNCHANGED <<pc, argv, env, processEnv, accessToken, domain, exitCode,
                   stderr, shopifyClient, toolClient, initializeCalls,
                   registered, connected, step, serverVars, qlVars, invVars,
                   callVars>>

InitStartup ==
    /\ BootStart
    /\ step = 0
    /\ ServerIdle
    /\ QLIdle
    /\ InvIdle
    /\ CallsIdle

NextStartup ==
    \/ ResolveConfiguration
    \/ CheckAccessToken
    \/ CheckDomain
    \/ CreateClient
    \/ InitializeTool
    \/ CreateServer
    \/ RegisterTool
    \/ Connect
    \/ ConnectFails
    \/ ExecuteTool
    \/ ExecuteEnds

SpecStartup == InitStartup /\ [][NextStartup]_vars

-----------------------------------------------------------------------------
(* Execute calls that overlap: the server may call a handler while the     *)
(* request of an earlier call is still awaited, and the requests settle in *)
(* any order.  Each call keeps its input, its query and its response in    *)
(* the locals of its own execute; the modules share only shopifyClient.    *)

MaxCalls == 3

\* The tool and arguments of the calls that are overlapped.
CallSamples ==
    { <<"search-orders", Obj(<< <<"query", Some("tag:vip")>> >>)>>,
      <<"search-orders",
        Obj(<< <<"query", Some("tag:vip")>>, <<"reverse", Some(FALSE)>> >>)>>,
      <<"get-sales-report", Obj(<< <<"period", Some("today")>> >>)>> }

\* What the remote API answers to an overlapped call of tool t.
CallResponses(t) ==
    { r \in Responses(t) :
        \/ r.kind = "reject" /\ r.message = "fetch failed"
        \/ r.kind = "data" /\ t \notin AnalyticsTools
             /\ \A k \in 1..Len(r.edges) :
                    k = 1 /\ r.edges[k].name = "#1002"
        \/ r.kind = "data" /\ t \in AnalyticsTools
             /\ r.tableData # None /\ Len(r.tableData[1].rows) = 1
             /\ (r.parseErrors = None \/ Len(r.parseErrors[1]) = 1) }

\* Calls of cs, other than call i, that are awaiting their response.
OthersInFlight(cs, i) ==
    {j \in 1..Len(cs) : j # i /\ cs[j].status = "inflight"}

\* Call i of cs settles while a call started before it is still awaited.
Overtakes(cs, i) == \E j \in OthersInFlight(cs, i) : j < i

\* (input and variables are module-level variables, set by the call of the
\* same tool that started last)
CallOutcome_SharedLocals(cs, i, r) ==
    LET last == CHOOSE j \in 1..Len(cs) :
                    /\ cs[j].tool = cs[i].tool
                    /\ \A k \in 1..Len(cs) : cs[k].tool = cs[i].tool => k <= j
    IN  ExecuteOutcome(cs[i].tool, cs[last].input, cs[last].variables, r)

\* (a module-level lastError is raised again by every later call of the
\* tool)
CallOutcome_StickyError(cs, i, r) ==
    LET failed == {j \in 1..Len(cs) :
                      /\ cs[j].tool = cs[i].tool
                      /\ cs[j].status = "settled"
                      /\ cs[j].outcome[1].kind = "threw"}
    IN  IF failed # {}
        THEN cs[CHOOSE j \in failed : \A k \in failed : j <= k].outcome[1]
        ELSE ExecuteOutcome(cs[i].tool, cs[i].input, cs[i].variables, r)

\* What call i of cs returns or raises on its response r: execute works on
\* the input, the variables and the data of its own activation.
CallOutcome(cs, i, r) ==
    ExecuteOutcome(cs[i].tool, cs[i].input, cs[i].variables, r)

InitCalls ==
    /\ ServerIdle
    /\ QLIdle
    /\ InvIdle
    /\ BootServed
    /\ step = 0
    /\ CallsIdle

\* A handler calls execute: the request of the new call is issued and
\* awaited; the calls already awaiting are now overlapped.
StartCall ==
    /\ Len(calls) < MaxCalls
    /\ \E s \in CallSamples :
        LET t == s[1]
            parsed == ZParse(RegisteredSchema(t), s[2])
        IN  /\ parsed.success
            /\ calls' =
                 Append([j \in 1..Len(calls) |->
                            IF calls[j].status = "inflight"
                            THEN [calls[j] EXCEPT !.overlapped = TRUE]
                            ELSE calls[j]],
                        [tool |-> t, args |-> s[2], input |-> parsed.data,
                         variables |-> RequestVariables(t, parsed.data),
                         status |-> "inflight", response |-> None,
                         outcome |-> None, overtook |-> FALSE,
                         overlapped |->
                            \E j \in 1..Len(calls) :
                                calls[j].status = "inflight"])
    /\ UNCHANGED <<serverVars, qlVars, invVars, bootVars>>

\* The request of any awaiting call settles and its execute runs to its
\* return or its throw.
SettleCall ==
    /\ \E i \in 1..Len(calls) :
        /\ calls[i].status = "inflight"
        /\ \E r \in CallResponses(calls[i].tool) :
             calls' = [calls EXCEPT
                          ![i].status = "settled",
                          ![i].response = Some(r),
                          ![i].outcome = Some(CallOutcome(calls, i, r)),
                          ![i].overtook = Overtakes(calls, i)]
    /\ UNCHANGED <<serverVars, qlVars, invVars, bootVars>>

NextCalls ==
    \/ StartCall
    \/ SettleCall

SpecCalls == InitCalls /\ [][NextCalls]_vars

-----------------------------------------------------------------------------
(* The inventory mapping applied to bounded inventory items *)

InitInv ==
    /\ ServerIdle
    /\ QLIdle
    /\ BootServed
    /\ step = 0
    /\ CallsIdle
    /\ invNode \in InventoryItemNodes
    /\ invItem = None

MapInventoryItem ==
    /\ invItem = None
    /\ invItem' = Some(getInventoryLevelsMapNode(invNode))
    /\ UNCHANGED <<invNode, serverVars, qlVars, bootVars, callVars>>

NextInv == MapInventoryItem

SpecInv == InitInv /\ [][NextInv]_vars

-----------------------------------------------------------------------------
(* The helpers applied to their bounded inputs *)

InitQL ==
    /\ ServerIdle
    /\ InvIdle
    /\ BootServed
    /\ step = 0
    /\ CallsIdle
    /\ qlFn \in QLFunctions
    /\ qlArg \in QLArguments(qlFn)
    /\ qlResult = None

CallPeriodToShopifyQL ==
    /\ qlFn = "periodToShopifyQL"
    /\ qlResult = None
    /\ qlResult' = Some(periodToShopifyQL(qlArg))
    /\ UNCHANGED <<qlFn, qlArg, serverVars, invVars, bootVars, callVars>>

CallGroupByToShopifyQL ==
    /\ qlFn = "groupByToShopifyQL"
    /\ qlResult = None
    /\ qlResult' = Some(groupByToShopifyQL(qlArg))
    /\ UNCHANGED <<qlFn, qlArg, serverVars, invVars, bootVars, callVars>>

CallGroupByToOrderBy ==
    /\ qlFn = "groupByToOrderBy"
    /\ qlResult = None
    /\ qlResult' = Some(groupByToOrderBy(qlArg))
    /\ UNCHANGED <<qlFn, qlArg, serverVars, invVars, bootVars, callVars>>

CallBuildShopifyQLQuery ==
    /\ qlFn = "buildShopifyQLQuery"
    /\ qlResult = None
    /\ qlResult' = Some(JSString(buildShopifyQLQuery(qlArg)))
    /\ UNCHANGED <<qlFn, qlArg, serverVars, invVars, bootVars, callVars>>

NextQL ==
    \/ CallPeriodToShopifyQL
    \/ CallGroupByToShopifyQL
    \/ CallGroupByToOrderBy
    \/ CallBuildShopifyQLQuery

SpecQL == InitQL /\ [][NextQL]_vars

-----------------------------------------------------------------------------
(* Claims about the query-string helpers (checked under SpecQL) *)

\* C1: periodToShopifyQL returns, for every supported period token, a
\* non-empty string starting with SINCE or DURING, and for every other
\* input string (the empty string, "constructor", "toString", ...) exactly
\* the string "SINCE -30d".
C1_PeriodContract ==
    (qlFn = "periodToShopifyQL" /\ qlResult # None) =>
        LET r == qlResult[1] IN
        /\ r.type = "string"
        /\ qlArg \in SupportedPeriods =>
              /\ r.str # ""
              /\ StartsWith(r.str, "SINCE") \/ StartsWith(r.str, "DURING")
        /\ qlArg \notin SupportedPeriods => r = JSString("SINCE -30d")

\* The options of the example of C2.
C2_Options ==
    MakeOptions("sales", <<"total_sales", "orders">>, None, Some("day"),
                "last_7_days", None, Some(50))

\* C2: buildShopifyQLQuery on from = sales, show = [total_sales, orders],
\* period = last_7_days, groupBy = day, limit = 50 and no where or orderBy
\* returns exactly
\* "FROM sales SHOW total_sales, orders SINCE -7d GROUP BY day ORDER BY day LIMIT 50".
C2_ExampleQuery ==
    (qlFn = "buildShopifyQLQuery" /\ qlArg = C2_Options /\ qlResult # None) =>
        qlResult[1] = JSString(
          "FROM sales SHOW total_sales, orders SINCE -7d GROUP BY day ORDER BY day LIMIT 50")

C2_Witness ==
    qlFn = "buildShopifyQLQuery" /\ qlArg = C2_Options /\ qlResult # None

\* How many times sub occurs in s.
Occurrences(s, sub) ==
    Cardinality({i \in 1..(Len(s) - Len(sub) + 1) :
                    SubSeq(s, i, i + Len(sub) - 1) = sub})

\* The default orderings groupByToOrderBy can return.
DerivedOrderings == {"ORDER BY day", "ORDER BY week", "ORDER BY month",
                     "ORDER BY total_sales DESC"}

\* A query built by buildShopifyQLQuery has just been returned.
BuiltQuery == qlFn = "buildShopifyQLQuery" /\ qlResult # None

\* C22: buildShopifyQLQuery emits at most one ORDER BY part.  An explicit
\* orderBy (a non-empty string) is the one emitted and the groupBy-derived
\* ordering is not; the derived ordering is emitted exactly when no orderBy
\* is given and a groupBy (a non-empty string) is; with neither there is
\* no ORDER BY part.  The empty string counts as not given, as in the
\* function's own tests.
C22_AtMostOneOrderBy ==
    BuiltQuery =>
        LET q == qlResult[1].str
            derived == \E d \in DerivedOrderings : Includes(q, d)
        IN  /\ Occurrences(q, "ORDER BY") <= 1
            /\ GivenString(qlArg, "orderBy") =>
                  Includes(q, " " \o qlArg.orderBy) /\ ~derived
            /\ derived <=>
                  (~GivenString(qlArg, "orderBy")
                     /\ GivenString(qlArg, "groupBy"))
            /\ (~GivenString(qlArg, "orderBy")
                  /\ GivenString(qlArg, "groupBy")) =>
                  Includes(q, " " \o groupByToOrderBy(qlArg.groupBy).str)
            /\ (~GivenString(qlArg, "orderBy")
                  /\ ~GivenString(qlArg, "groupBy"))
                  => Occurrences(q, "ORDER BY") = 0

C22_Witness ==
    /\ BuiltQuery
    /\ GivenString(qlArg, "orderBy")
    /\ GivenString(qlArg, "groupBy")
    /\ qlArg.groupBy = "product"
    /\ Occurrences(qlResult[1].str, "ORDER BY") = 1
    /\ Includes(qlResult[1].str, "GROUP BY product_title ORDER BY orders DESC")

\* The column of a "GROUP BY <column>" clause.
GroupingColumn(clause) == SubSeq(clause, Len("GROUP BY ") + 1, Len(clause))

\* C23: groupByToShopifyQL and groupByToOrderBy are total: for every
\* grouping token they return "GROUP BY <column>" and a default
\* "ORDER BY <column>" or "ORDER BY <column> DESC" on the grouping column of
\* the same token; for every other token they return "GROUP BY day" and
\* "ORDER BY day".
C23_GroupByTotal ==
    (qlFn \in {"groupByToShopifyQL", "groupByToOrderBy"} /\ qlResult # None) =>
        LET r == qlResult[1]
            column == GroupingColumn(groupByToShopifyQL(qlArg).str)
        IN  /\ r.type = "string"
            /\ (qlArg \in GroupByTokens /\ qlFn = "groupByToShopifyQL") =>
                  /\ StartsWith(r.str, "GROUP BY ")
                  /\ Len(r.str) > Len("GROUP BY ")
            /\ (qlArg \in GroupByTokens /\ qlFn = "groupByToOrderBy") =>
                  r.str \in {"ORDER BY " \o column,
                             "ORDER BY " \o column \o " DESC"}
            /\ qlArg \notin GroupByTokens =>
                  r = JSString(IF qlFn = "groupByToShopifyQL"
                               THEN "GROUP BY day" ELSE "ORDER BY day")

-----------------------------------------------------------------------------
(* Claims about one invocation (checked under Spec) *)

\* execute was called for the current invocation.
Called == phase \in {"awaiting", "returned", "threw"}

\* execute ran to its end for the current invocation.
Settled == phase \in {"returned", "threw"}

\* The tools that assemble a ShopifyQL query from structured input.
QueryBuilders ==
    {"get-sales-report", "get-product-performance", "get-customer-analytics"}

\* Where a clause starts in query text q; 0 when q does not hold it.
ClausePosition(q, clause) ==
    IF clause = "period"
    THEN (IF Includes(q, "SINCE ") THEN IndexOf(q, "SINCE ")
          ELSE IndexOf(q, "DURING "))
    ELSE IndexOf(q, clause \o " ")

ClauseOrder ==
    <<"FROM", "SHOW", "WHERE", "period", "GROUP BY", "ORDER BY", "LIMIT">>

ClausesInOrder(q) ==
    /\ ClausePosition(q, "FROM") = 1
    /\ ClausePosition(q, "SHOW") > 0
    /\ ClausePosition(q, "period") > 0
    /\ \A i, j \in 1..Len(ClauseOrder) :
          (/\ i < j
           /\ ClausePosition(q, ClauseOrder[i]) > 0
           /\ ClausePosition(q, ClauseOrder[j]) > 0)
          => ClausePosition(q, ClauseOrder[i]) < ClausePosition(q, ClauseOrder[j])

\* A clause keyword directly followed by the separator of the next clause
\* or by the end of the text.
EmptyClause(q, keyword) == Includes(q \o " ", keyword \o "  ")

NoEmptyClause(q) ==
    \A k \in {"FROM", "SHOW", "WHERE", "SINCE", "DURING", "GROUP BY",
              "ORDER BY", "LIMIT"} : ~EmptyClause(q, k)

\* An optional clause that the tool's query specification does not supply
\* is not in the text.
UnsuppliedClausesAbsent(t, in, q) ==
    CASE t = "get-sales-report" -> ~Includes(q, "WHERE")
      [] t = "get-product-performance" ->
            "productType" \notin DOMAIN in => ~Includes(q, "WHERE")
      [] t = "get-customer-analytics" ->
            /\ in.reportType # "acquisition" => ~Includes(q, "WHERE")
            /\ in.reportType # "spending" => ~Includes(q, "LIMIT")

\* C3: every ShopifyQL query text a tool produces has its clauses in the
\* order FROM, SHOW, WHERE, period, GROUP BY, ORDER BY, LIMIT, holds no
\* optional clause that was not supplied, and holds no clause keyword with
\* an empty body.
C3_ClauseInvariant ==
    (Called /\ tool \in QueryBuilders) =>
        /\ ClausesInOrder(variables[1].query)
        /\ UnsuppliedClausesAbsent(tool, input[1], variables[1].query)
        /\ NoEmptyClause(variables[1].query)

\* The messages of es joined by "; ", built from the left.
SemicolonJoined(es) ==
    LET upTo[i \in 1..Len(es)] ==
            IF i = 1 THEN es[1] ELSE upTo[i - 1] \o "; " \o es[i]
    IN  IF es = <<>> THEN "" ELSE upTo[Len(es)]

ParseErrorsReported ==
    /\ Settled
    /\ tool \in AnalyticsTools
    /\ response[1].kind = "data"
    /\ response[1].parseErrors # None
    /\ response[1].parseErrors[1] # <<>>

\* C4: when the response of an analytics tool carries a non-empty
\* parseErrors list, execute raises an error whose message holds all the
\* messages joined by "; "; no result mapping runs and no envelope is
\* returned, also when tableData is present.
C4_ParseErrorsRaise ==
    ParseErrorsReported =>
        /\ phase = "threw"
        /\ outcome[1].kind = "threw"
        /\ Includes(outcome[1].message,
                    SemicolonJoined(response[1].parseErrors[1]))
        /\ ~mapped

C4_Witness ==
    /\ ParseErrorsReported
    /\ Len(response[1].parseErrors[1]) >= 2
    /\ response[1].tableData # None
    /\ phase = "threw"

\* C5: whenever the input of get-inventory-levels carries both a sku and a
\* productId, the filter sent is exactly "sku:<sku>" and holds no
\* product_id term, for every sku including the empty string.
C5_SkuFilterWins ==
    (/\ Called
     /\ tool = "get-inventory-levels"
     /\ "sku" \in DOMAIN args
     /\ "productId" \in DOMAIN args) =>
        /\ "query" \in DOMAIN variables[1]
        /\ variables[1].query = "sku:" \o args.sku
        /\ ~Includes(variables[1].query, "product_id")

\* C7: a successful response with zero edges (for an analytics tool: zero
\* rows or a null tableData, and no parse errors) gives a returned envelope
\* whose collection is empty and whose count is 0, never an error.
ZeroData(t, r) ==
    /\ r.kind = "data"
    /\ IF t \in AnalyticsTools
       THEN /\ r.parseErrors = None \/ r.parseErrors[1] = <<>>
            /\ r.tableData = None \/ r.tableData[1].rows = <<>>
       ELSE r.edges = <<>>

\* The collection and the count field of the envelope of tool t.
CollectionOf(t, e) ==
    CASE t = "get-locations" -> e.locations
      [] t = "get-inventory-levels" -> e.inventoryItems
      [] t = "get-collections" -> e.collections
      [] t = "search-orders" -> e.orders
      [] t = "run-shopifyql-query" -> e.rows
      [] t = "get-sales-report" -> e.rows
      [] t = "get-product-performance" -> e.products
      [] t = "get-customer-analytics" ->
            IF "results" \in DOMAIN e THEN e.results ELSE e.rows

CountOf(t, e) ==
    CASE t = "get-locations" -> e.locationCount
      [] t = "get-inventory-levels" -> e.itemCount
      [] t = "get-collections" -> e.collectionCount
      [] t = "search-orders" -> e.orderCount
      [] t = "get-product-performance" -> e.productCount
      [] OTHER -> e.rowCount

C7_ZeroEdgesEmptyResult ==
    (Settled /\ tool \in SourceTools /\ ZeroData(tool, response[1])) =>
        /\ phase = "returned"
        /\ outcome[1].kind = "returned"
        /\ CollectionOf(tool, outcome[1].envelope) = <<>>
        /\ CountOf(tool, outcome[1].envelope) = 0

C7_Witness ==
    /\ phase = "returned"
    /\ tool = "get-customer-analytics"
    /\ ZeroData(tool, response[1])
    /\ response[1].tableData # None
    /\ CountOf(tool, outcome[1].envelope) = 0

\* C8: for every registered tool that takes a limit, an invocation with a
\* limit outside the bounds (0, or 9999) is rejected by the registry's
\* validation and issues no request.
C8_LimitBoundsEnforced ==
    (/\ phase # "idle"
     /\ "limit" \in DOMAIN RegisteredSchema(tool)
     /\ "limit" \in DOMAIN args
     /\ args.limit \in {0, 9999}) =>
        /\ phase = "rejected"
        /\ requests = 0

\* C9: for every tool whose own schema is in the source, the registered
\* schema and the tool's own schema are the same field by field (bounds,
\* enum members, defaults) and give the same verdict and the same parsed
\* input on the arguments of the invocation.
C9_SchemasAgree ==
    /\ \A t \in SourceTools : RegisteredSchema(t) = OwnSchema(t)
    /\ (phase # "idle" /\ tool \in SourceTools) =>
          ZParse(RegisteredSchema(tool), args) = ZParse(OwnSchema(tool), args)

C9_Witness ==
    /\ phase = "rejected"
    /\ tool = "get-product-performance"
    /\ "limit" \in DOMAIN args
    /\ args.limit = 101
    /\ ~ZParse(OwnSchema(tool), args).success

\* C10: an execute call issues exactly one request to the remote client,
\* whether the request succeeds, reports parse errors or fails; an
\* invocation that did not reach execute issues none.
C10_OneRequestPerExecute ==
    /\ (Called /\ tool \in SourceTools) => requests = 1
    /\ ~Called => requests = 0

C10_Witness ==
    /\ phase = "threw"
    /\ tool \in SourceTools
    /\ response[1].kind = "reject"
    /\ requests = 1

\* What follows the last "/" of s; s itself when it holds no "/".
LastSegment(s) ==
    LET slashes == {i \in 1..Len(s) : SubSeq(s, i, i) = "/"}
    IN  IF slashes = {} THEN s
        ELSE SubSeq(s, (CHOOSE i \in slashes : \A j \in slashes : j <= i) + 1,
                    Len(s))

\* C24: get-inventory-levels with a productId and no sku sends the filter
\* "product_id:<numeric>", <numeric> being the last "/"-separated segment
\* of the productId, or the productId itself when it holds no "/"; with
\* neither sku nor productId the request carries no filter at all.  A
\* value passed as the empty string counts as not given, as in the code's
\* own tests.
C24_ProductIdFilter ==
    (Called /\ tool = "get-inventory-levels") =>
        /\ (~GivenString(args, "sku") /\ GivenString(args, "productId")) =>
              /\ "query" \in DOMAIN variables[1]
              /\ variables[1].query
                    = "product_id:" \o LastSegment(args.productId)
        /\ (~GivenString(args, "sku") /\ ~GivenString(args, "productId")) =>
              "query" \notin DOMAIN variables[1]

C24_Witness ==
    /\ Called
    /\ tool = "get-inventory-levels"
    /\ "sku" \notin DOMAIN args
    /\ "productId" \in DOMAIN args
    /\ args.productId = "gid://shopify/Product/123"
    /\ variables[1].query = "product_id:123"

\* The filter C25 describes for a search text (<<>> when absent) and a
\* collection type: <<text>>, or <<>> when no term applies.
ExpectedCollectionsFilter(searchQuery, collectionType) ==
    LET title == IF searchQuery # None /\ searchQuery[1] # ""
                 THEN Some("title:*" \o searchQuery[1] \o "*") ELSE None
        type == CASE collectionType = "smart" -> Some("collection_type:smart")
                  [] collectionType = "manual" -> Some("collection_type:custom")
                  [] OTHER -> None
    IN  IF title # None /\ type # None
        THEN Some(title[1] \o " AND " \o type[1])
        ELSE IF title # None THEN title
        ELSE type

\* C25: get-collections builds its filter from the terms
\* "title:*<searchQuery>*" (only for a non-empty searchQuery) and
\* "collection_type:smart" for smart or "collection_type:custom" for manual
\* (none for all), in that order, joined by " AND "; when no term applies
\* the request carries no filter.
C25_CollectionsFilter ==
    (Called /\ tool = "get-collections") =>
        LET expected ==
              ExpectedCollectionsFilter(
                  IF "searchQuery" \in DOMAIN args
                  THEN Some(args.searchQuery) ELSE None,
                  input[1].collectionType)
        IN  /\ input[1].collectionType \in {"all", "smart", "manual"}
            /\ expected = None => "query" \notin DOMAIN variables[1]
            /\ expected # None =>
                  /\ "query" \in DOMAIN variables[1]
                  /\ variables[1].query = expected[1]

C25_Witness ==
    /\ Called
    /\ tool = "get-collections"
    /\ "query" \in DOMAIN variables[1]
    /\ variables[1].query = "title:*sale* AND collection_type:custom"
    /\ input[1].collectionType = "manual"

\* The tools that take a period argument.
PeriodTools ==
    {"get-sales-report", "get-product-performance", "get-customer-analytics"}

\* C26: every period the registered schema of get-sales-report,
\* get-product-performance or get-customer-analytics admits is a key of
\* periodToShopifyQL's map; among the admitted periods only last_30_days
\* gives "SINCE -30d", no two give the same clause, and the query of a
\* validated invocation holds the clause of its own period and of no other
\* admitted period.
C26_AdmittedPeriodsSupported ==
    (Called /\ tool \in PeriodTools) =>
        LET admitted == RegisteredSchema(tool).period.members
            p == input[1].period
        IN  /\ admitted \subseteq DOMAIN periodMap
            /\ p \in admitted
            /\ \A a \in admitted :
                  periodToShopifyQL(a) = JSString("SINCE -30d")
                      <=> a = "last_30_days"
            /\ \A a, b \in admitted :
                  periodToShopifyQL(a) = periodToShopifyQL(b) => a = b
            /\ \A a \in admitted :
                  Includes(variables[1].query, periodToShopifyQL(a).str)
                      <=> a = p

C26_Witness ==
    /\ Called
    /\ tool = "get-customer-analytics"
    /\ input[1].period = "last_year"
    /\ Includes(variables[1].query, "DURING last_year")

-----------------------------------------------------------------------------
(* Claims about failures of one invocation (checked under Spec) *)

\* A step of execute fails on response r of tool t.
StepFails(t, r) ==
    \/ r.kind \in {"reject", "malformed"}
    \/ t \in AnalyticsTools /\ r.kind = "data"
         /\ r.parseErrors # None /\ r.parseErrors[1] # <<>>

\* The message of the original cause of the failure.
CauseMessage(r) ==
    CASE r.kind = "reject" -> r.message
      [] r.kind = "malformed" ->
            "Cannot read properties of null (reading '" \o r.missing \o "')"
      [] OTHER -> "ShopifyQL parse errors: "
                     \o SemicolonJoined(r.parseErrors[1])

\* C11: an execute call in which a step fails (the request rejects, the
\* response reports parse errors, or the mapping throws on a missing
\* field) raises exactly one error whose message embeds the cause's
\* message, after logging the cause once; it returns no envelope.
C11_FailureRaisesOnce ==
    (Settled /\ tool \in SourceTools /\ StepFails(tool, response[1])) =>
        /\ phase = "threw"
        /\ outcome[1].kind = "threw"
        /\ outcome[1].envelope = <<>>
        /\ Includes(outcome[1].message, CauseMessage(response[1]))
        /\ errorLog = <<CauseMessage(response[1])>>

C11_Witness ==
    /\ phase = "threw"
    /\ tool = "search-orders"
    /\ response[1].kind = "malformed"
    /\ response[1].missing = "shopMoney"
    /\ mapped
    /\ Len(errorLog) = 1

\* Whether text s ends with suffix.
EndsWith(s, suffix) ==
    /\ Len(s) >= Len(suffix)
    /\ SubSeq(s, Len(s) - Len(suffix) + 1, Len(s)) = suffix

\* C12: when the remote call of a tool fails, the raised message is the
\* underlying failure message preceded by a prefix of the form
\* "Failed to fetch <X>: ".
C12_FailedToFetchPrefix ==
    (phase = "threw" /\ tool \in SourceTools
       /\ response[1].kind = "reject") =>
        /\ StartsWith(outcome[1].message, "Failed to fetch ")
        /\ EndsWith(outcome[1].message, ": " \o response[1].message)
        /\ Len(outcome[1].message)
              > Len("Failed to fetch ") + Len(": " \o response[1].message)

-----------------------------------------------------------------------------
(* Claims about the returned envelope and the reply (checked under Spec) *)

\* The key of the collection and of the count in the envelope of tool t.
CollectionKeys(t) ==
    CASE t = "get-locations" -> {"locations"}
      [] t = "get-inventory-levels" -> {"inventoryItems"}
      [] t = "get-collections" -> {"collections"}
      [] t = "search-orders" -> {"orders"}
      [] t = "get-product-performance" -> {"products"}
      [] t = "get-customer-analytics" -> {"rows", "results"}
      [] OTHER -> {"rows"}

CountKey(t) ==
    CASE t = "get-locations" -> "locationCount"
      [] t = "get-inventory-levels" -> "itemCount"
      [] t = "get-collections" -> "collectionCount"
      [] t = "search-orders" -> "orderCount"
      [] t = "get-product-performance" -> "productCount"
      [] OTHER -> "rowCount"

\* C16: every returned result envelope holds the reshaped collection and a
\* count field (locationCount, itemCount, collectionCount, orderCount,
\* rowCount, productCount), and the count equals the number of elements
\* of the collection.
C16_CountIsLength ==
    (phase = "returned" /\ tool \in SourceTools) =>
        LET e == outcome[1].envelope IN
        /\ Cardinality(CollectionKeys(tool) \cap DOMAIN e) = 1
        /\ CountKey(tool) \in DOMAIN e
        /\ \A k \in CollectionKeys(tool) \cap DOMAIN e :
              e[CountKey(tool)] = Len(e[k])

C16_Witness ==
    /\ phase = "returned"
    /\ tool = "search-orders"
    /\ Len(response[1].edges) >= 2
    /\ outcome[1].envelope.orderCount = Len(response[1].edges)
    /\ input[1].limit # outcome[1].envelope.orderCount

\* C17: every analytics tool puts in every returned envelope an echo of
\* the resolved query string that was sent to the remote API, together
\* with the period it was resolved from where the tool takes one.
C17_QueryEchoed ==
    (phase = "returned" /\ tool \in AnalyticsTools) =>
        LET e == outcome[1].envelope IN
        /\ "query" \in DOMAIN e
        /\ e.query = variables[1].query
        /\ "period" \in DOMAIN input[1] =>
              "period" \in DOMAIN e /\ e.period = input[1].period

\* C18: a successful invocation is answered with a content list of exactly
\* one element, of type text, whose text is the JSON serialization of the
\* mapping execute returned (an object text that carries the count field
\* with the count); when execute raises or validation fails the handler
\* returns no reply.
C18_ReplyIsOneJSONText ==
    /\ (phase = "returned" /\ tool \in SourceTools) =>
          /\ reply # None
          /\ DOMAIN reply[1] = {"content"}
          /\ Len(reply[1].content) = 1
          /\ DOMAIN reply[1].content[1] = {"type", "text"}
          /\ reply[1].content[1].type = "text"
          /\ reply[1].content[1].text
                = JSONStringify(tool, outcome[1].envelope)
          /\ StartsWith(reply[1].content[1].text, "{\"")
          /\ EndsWith(reply[1].content[1].text,
                      "\"" \o CountKey(tool) \o "\":"
                         \o ToString(outcome[1].envelope[CountKey(tool)])
                         \o "}")
    /\ phase \in {"idle", "rejected", "awaiting", "threw"} => reply = None

C18_Witness ==
    /\ phase = "returned"
    /\ tool = "get-collections"
    /\ reply # None
    /\ Len(outcome[1].envelope.collections) = 2
    /\ Includes(reply[1].content[1].text, "\"imageAltText\":null")
    /\ EndsWith(reply[1].content[1].text, "\"collectionCount\":2}")

\* An analytics call returned on a response without data: tableData is
\* null, or present with zero rows.
NoDataReturned ==
    /\ phase = "returned"
    /\ tool \in AnalyticsTools
    /\ response[1].kind = "data"
    /\ (response[1].tableData = None
          \/ Len(response[1].tableData[1].rows) = 0)

\* C27: for each analytics tool the returned envelope has the same field
\* names in the two no-data cases, tableData null and tableData present
\* with zero rows.
C27_NoDataKeysAgree ==
    NoDataReturned =>
        LET q == variables[1].query
            empty == Some([columns |-> TableColumns, rows |-> <<>>])
        IN  /\ DOMAIN outcome[1].envelope
                  = DOMAIN AnalyticsEnvelope(tool, input[1], q, None)
            /\ DOMAIN outcome[1].envelope
                  = DOMAIN AnalyticsEnvelope(tool, input[1], q, empty)

\* get-collections returned its envelope for a response with edges.
CollectionsReturned ==
    /\ phase = "returned"
    /\ tool = "get-collections"
    /\ response[1].kind = "data"

\* C28: every collection get-collections returns has collectionType
\* "smart" exactly when the ruleSet of its node is non-null and holds at
\* least one rule, and "manual" otherwise; its rules field is non-null
\* exactly when the type is "smart", so a node whose ruleSet holds zero
\* rules is returned as manual with rules null.
C28_SmartIffRules ==
    CollectionsReturned =>
        LET nodes == response[1].edges
            cols == outcome[1].envelope.collections
        IN  /\ Len(cols) = Len(nodes)
            /\ \A i \in 1..Len(nodes) :
                  LET hasRules == /\ nodes[i].ruleSet # None
                                  /\ Len(nodes[i].ruleSet[1].rules) >= 1
                  IN  /\ cols[i].id = nodes[i].id
                      /\ cols[i].collectionType \in {"smart", "manual"}
                      /\ cols[i].collectionType = "smart" <=> hasRules
                      /\ cols[i].rules # None <=> cols[i].collectionType = "smart"
                      /\ hasRules =>
                            /\ cols[i].rules[1].rules = nodes[i].ruleSet[1].rules
                            /\ cols[i].rules[1].appliedDisjunctively
                                  = nodes[i].ruleSet[1].appliedDisjunctively

C28_Witness ==
    /\ CollectionsReturned
    /\ \E i \in 1..Len(response[1].edges) :
          /\ response[1].edges[i].ruleSet # None
          /\ Len(response[1].edges[i].ruleSet[1].rules) = 0
          /\ outcome[1].envelope.collections[i].collectionType = "manual"
          /\ outcome[1].envelope.collections[i].rules = None
    /\ \E i \in 1..Len(response[1].edges) :
          outcome[1].envelope.collections[i].collectionType = "smart"

-----------------------------------------------------------------------------
(* Claims about process startup (checked under SpecStartup) *)

\* A configuration value is absent from the flags and from the environment.
Absent(name) == argv[name] = None /\ env[name] = None

\* C13: if the access credential or the store domain is absent from both
\* the command-line flags and the environment, the process prints a
\* message and exits with a non-zero status before the client is
\* constructed, before any tool is initialized or registered and before
\* the server connects; no tool is ever reachable in such a run.
C13_MissingConfigurationExits ==
    (Absent("accessToken") \/ Absent("domain")) =>
        /\ pc \in {"resolve", "checkToken", "checkDomain", "exited"}
        /\ pc = "checkDomain" => ~Absent("accessToken")
        /\ pc = "exited" =>
              /\ exitCode # None
              /\ exitCode[1] # 0
              /\ stderr # <<>>
        /\ shopifyClient = None
        /\ \A t \in ToolNames :
              toolClient[t] = None /\ initializeCalls[t] = 0
        /\ registered = <<>>
        /\ ~connected
        /\ executing = None

C13_Witness ==
    /\ pc = "exited"
    /\ ~Absent("accessToken")
    /\ Absent("domain")
    /\ exitCode = Some(1)
    /\ Len(stderr) = 3

\* The tools registered so far.
RegisteredTools == {registered[i] : i \in 1..Len(registered)}

\* C14: in every run that reaches the server, each registered tool has had
\* initialize called exactly once, before the server connects; no execute
\* of a registered tool runs before that tool's initialize.
C14_InitializedOnceBeforeConnect ==
    /\ \A t \in RegisteredTools : initializeCalls[t] = 1
    /\ \A t \in ToolNames : initializeCalls[t] <= 1
    /\ connected => RegisteredTools = ToolNames
    /\ executing # None =>
          /\ connected
          /\ initializeCalls[executing[1]] = 1
          /\ requestedWith # None

C14_Witness ==
    /\ connected
    /\ executing = Some("search-orders")
    /\ Len(registered) = 17
    /\ initializeCalls["search-orders"] = 1

\* The one handle a run constructs from its configuration.
SharedHandle ==
    GraphQLClient(IF argv.domain # None THEN argv.domain[1] ELSE env.domain[1],
                  IF argv.accessToken # None THEN argv.accessToken[1]
                  ELSE env.accessToken[1])

\* C15: after startup every tool's stored client is the one shared handle
\* constructed from the configured domain and credential, and it is the
\* same in every state after initialization: before, during and after
\* every execute call.
C15_SharedClientUnchanged ==
    pc \in {"register", "serving", "failed"} =>
        /\ shopifyClient = Some(SharedHandle)
        /\ \A t \in SourceTools : toolClient[t] = Some(SharedHandle)
        /\ executing # None /\ executing[1] \in SourceTools =>
              requestedWith = Some(SharedHandle)

C15_Witness ==
    /\ pc = "serving"
    /\ executing = Some("get-locations")
    /\ argv.domain = None
    /\ argv.accessToken # None
    /\ toolClient["get-sales-report"] = Some(SharedHandle)
    /\ SharedHandle.url = "https://env-value/admin/api/2025-10/graphql.json"

\* The names are pairwise distinct, and the execute a running handler
\* called belongs to the tool whose name field is the registered name.
DistinctNamesOwnExecute ==
    /\ \A i, j \in 1..Len(registered) :
          registered[i] = registered[j] => i = j
    /\ \A i \in 1..Len(registered) :
          registered[i] \in SourceTools =>
              ToolName(HandlerCalls(registered[i])) = registered[i]
    /\ executing # None =>
          /\ invokedAs # None
          /\ invokedAs[1] \in RegisteredTools
          /\ invokedAs[1] \in SourceTools => executing = invokedAs

\* C21: the names under which tools are registered are pairwise distinct
\* and, once the server is connected, never change; the handler of each
\* registration calls the execute of the tool whose own name field equals
\* the registered name (for the tools whose name field is in the source).
C21_RegisteredNamesStable ==
    /\ []DistinctNamesOwnExecute
    /\ [][Len(registered) <= Len(registered')
           /\ SubSeq(registered', 1, Len(registered)) = registered
           /\ (connected => registered' = registered)]_vars

C21_Witness ==
    /\ connected
    /\ Len(registered) = 17
    /\ invokedAs = Some("search-orders")
    /\ executing = Some("search-orders")
    /\ step = 0

-----------------------------------------------------------------------------
(* Claims about overlapping and successive calls (checked under SpecCalls) *)

IsSettled(i) == calls[i].status = "settled"

\* C19: the outcome of an execute call is a function of that call's input
\* and of the response to that call only: two calls with the same tool,
\* the same input and the same response have the same outcome, whatever
\* calls came before each of them.
C19_OutcomeIndependentOfHistory ==
    \A i, j \in 1..Len(calls) :
        (/\ IsSettled(i) /\ IsSettled(j)
         /\ calls[i].tool = calls[j].tool
         /\ calls[i].input = calls[j].input
         /\ calls[i].response = calls[j].response)
        => calls[i].outcome = calls[j].outcome

C19_Witness ==
    /\ Len(calls) = 3
    /\ \A i \in 1..3 : IsSettled(i) /\ ~calls[i].overlapped
                          /\ calls[i].tool = "get-sales-report"
    /\ calls[1].input = calls[3].input
    /\ calls[1].response = calls[3].response
    /\ calls[1].outcome[1].kind = "returned"
    /\ calls[2].outcome[1].kind = "threw"
    /\ calls[3].outcome[1].kind = "returned"

\* C20: when execute calls are in flight at once and their requests
\* complete in any order, each call's outcome is the one it would have if
\* run alone: mapped from its own response, echoing its own parameters.
C20_OverlappedCallsIsolated ==
    \A i \in 1..Len(calls) :
        (IsSettled(i) /\ calls[i].overlapped) =>
            LET alone == ExecuteOutcome(calls[i].tool, calls[i].input,
                            RequestVariables(calls[i].tool, calls[i].input),
                            calls[i].response[1])
            IN  /\ calls[i].outcome = Some(alone)
                /\ (calls[i].outcome[1].kind = "returned"
                      /\ calls[i].tool = "search-orders") =>
                       /\ calls[i].outcome[1].envelope.reverse
                            = calls[i].input.reverse
                       /\ calls[i].outcome[1].envelope.orderCount
                            = Len(calls[i].response[1].edges)
                /\ (calls[i].outcome[1].kind = "returned"
                      /\ calls[i].tool = "get-sales-report") =>
                       calls[i].outcome[1].envelope.period
                            = calls[i].input.period

C20_Witness ==
    /\ Len(calls) >= 2
    /\ IsSettled(1) /\ IsSettled(2)
    /\ calls[1].overlapped /\ calls[2].overlapped
    /\ calls[2].overtook
    /\ calls[1].tool = "search-orders" /\ calls[2].tool = "search-orders"
    /\ calls[1].input.reverse # calls[2].input.reverse
    /\ calls[1].outcome[1].kind = "returned"
    /\ calls[2].outcome[1].kind = "returned"
    /\ calls[1].outcome[1].envelope.orderCount
         # calls[2].outcome[1].envelope.orderCount

-----------------------------------------------------------------------------
(* Claims about the inventory mapping (checked under SpecInv) *)

\* Whether the quantities list holds an entry of the name.
HasQuantity(quantities, name) ==
    \E i \in 1..Len(quantities) : quantities[i].name = name

\* The mapped value of a quantity name in a mapped level.
LevelField(l, name) ==
    CASE name = "available" -> l.available
      [] name = "incoming" -> l.incoming
      [] name = "committed" -> l.committed
      [] name = "reserved" -> l.reserved
      [] name = "on_hand" -> l.onHand

\* The sum of field name over the mapped levels, from the last level down.
SumOverLevels(levels, name) ==
    LET from[i \in 1..(Len(levels) + 1)] ==
            IF i > Len(levels) THEN 0
            ELSE LevelField(levels[i], name) + from[i + 1]
    IN  from[1]

\* C6: a location level whose quantities list lacks a named entry reports
\* that quantity as 0; totalAvailable is the sum of the per-location
\* available values and totalOnHand the sum of the per-location onHand
\* values (both 0 when the item has no levels).
C6_MissingIsZeroAndTotals ==
    invItem # None =>
        LET item == invItem[1] IN
        /\ Len(item.inventoryLevels) = Len(invNode.inventoryLevels)
        /\ \A i \in 1..Len(invNode.inventoryLevels) :
              \A i2 \in 1..Len(QuantityNames) :
                 ~HasQuantity(invNode.inventoryLevels[i].quantities,
                              QuantityNames[i2])
                 => LevelField(item.inventoryLevels[i], QuantityNames[i2]) = 0
        /\ item.totalAvailable = SumOverLevels(item.inventoryLevels, "available")
        /\ item.totalOnHand = SumOverLevels(item.inventoryLevels, "on_hand")
        /\ invNode.inventoryLevels = <<>> =>
              item.totalAvailable = 0 /\ item.totalOnHand = 0

C6_Witness ==
    /\ invItem # None
    /\ Len(invNode.inventoryLevels) = 2
    /\ \A i \in 1..2 :
          /\ ~HasQuantity(invNode.inventoryLevels[i].quantities, "reserved")
          /\ HasQuantity(invNode.inventoryLevels[i].quantities, "available")
    /\ invItem[1].inventoryLevels[1].reserved = 0
    /\ invItem[1].totalAvailable > 0
    /\ invItem[1].totalOnHand > invItem[1].totalAvailable

====
